---- MODULE Spec2Model ----
(***************************************************************************)
(* Model of the course-embedding / aspect-scoring pipeline.                *)
(*                                                                         *)
(*   Stage A  data-scraper/compute_courses_embeddings.py                   *)
(*   Stage B  data-scraper/compute_courses_scores.py                       *)
(*                                                                         *)
(* A text is a sequence of characters, each character a one-element        *)
(* string; "U3002" stands for the ideographic full stop (one character).   *)
(* Real numbers are fixed point: vector components in 1/10, similarities  *)
(* in 1/100, hit activations, coverage, quality and score in 1/1000;       *)
(* keyword weights are exact fractions [num, den].                         *)
(***************************************************************************)
EXTENDS Integers, Sequences, FiniteSets, TLC

VARIABLES
    \* ---- Stage A (compute_courses_embeddings.main)
    a_pc,            \* "idle" | "loop" | "done"
    rows,            \* the loaded CSV rows: sequence of [row_id, text]
    min_chars,       \* max(0, args.min_sentence_chars)
    meta_rows,       \* meta_rows built so far
    all_sentences,   \* the global sentence list built so far
    offset,          \* the running offset
    a_sentence_embeddings,   \* the sentence-embedding matrix written
    course_embeddings,       \* the course-embedding matrix written
    \* ---- one call of a function on its own
    u_pc,            \* "idle" | "call" | "returned"
    u_fn,            \* the function called
    u_args,          \* its arguments
    u_ret,           \* what it returned
    \* ---- Stage B (compute_courses_scores.main)
    b_pc,            \* "idle" | "load" | "parse" | "weights" | "encode"
                     \*   | "score" | "done" | "error"
    files,           \* the files on disk the run reads (never written)
    args,            \* the parsed command line
    meta,            \* the metadata rows, sorted by id
    sentences,       \* the lines of the sentences file
    sentence_embeddings,   \* the rows of the sentence-embedding matrix
    aspects,         \* the aspects to score: sequence of [name, keywords]
    keyword_weights, \* per aspect: keyword -> weight
    keyword_vectors, \* keyword -> normalized vector
    configs,         \* per aspect: sequence of KeywordConfig
    records,         \* the records appended so far
    scores_table,    \* the scores table on disk
    b_error,         \* the error the run ended with, "" if none
    \* ---- one call of the encoder (_encode_sentences / _encode_texts)
    e_pc,            \* "idle" | "loop" | "returned"
    e_args,          \* [fn, model, texts, batch_size]
    e_start,         \* start, the loop variable of the batch loop
    outputs,         \* the matrices the model returned, one per batch
    model_calls,     \* the batches handed to model.encode, in order
    e_ret,           \* the matrix returned
    \* ---- an on-disk LLM-response cache (a .jsonl file)
    cache_kind,      \* "idle" | "summaries" | "classification"
    cache_file,      \* the lines of the file
    appended,        \* the (key, value) entries written so far, in order
    cache_lock,      \* the thread holding _CACHE_LOCK, "" if free
    appenders,       \* per thread: where it is in _append_cache, and its entry
    \* ---- the classification run (run_coursebook_classification.main)
    c_pc,            \* "idle" | "load" | "loop" | "done"
    c_courses,       \* courses, the rows read from the input CSV
    cache,           \* the in-memory cache
    c_idx,           \* idx, the 1-based position of the course in turn
    c_pass,          \* which pass over the courses this is
    ask_calls,       \* the calls of the model so far, with their responses
    c_results,       \* what classify_course returned or raised, per call
    \* ---- the Supabase import (supabase/import_from_csv.main)
    i_pc,            \* the step of main that comes next
    i_run,           \* which run of the script this is (1 or 2)
    i_inputs,        \* what the read_* functions return for the CSV files
    db,              \* the tables of the database: table -> set of rows
    db_first,        \* the tables as the first run left them
    requests,        \* the REST requests of this run, in order
    course_id_map,   \* course_key -> id, as map_course_ids returned it
    \* ---- the output of the classification run
    \* ---- (run_coursebook_classification.main)
    o_pc,            \* "idle" | "start" | "loop" | "done" | "exit"
    o_args,          \* the parsed command line: [start_line]
    start_line,      \* max(1, args.start_line)
    o_courses,       \* courses, the rows of the input CSV
    o_idx,           \* idx, the 1-based position of the course in turn
    output_csv,      \* OUTPUT_CSV: [exists, lines]
    o_before,        \* OUTPUT_CSV as it was when the run started
    classified,      \* the positions classify_course was called for
    o_runs,          \* the number of runs started so far
    \* ---- summarize_people_profiles.add_summaries
    s_pc,            \* "idle" | "build" | "serial" | "parallel" | "done"
    s_args,          \* rows, model, overwrite, limit, workers, use_cache
    s_rows,          \* the row dicts, updated in place
    s_out,           \* out: the rows listed so far, by input position
    s_tasks,         \* tasks: (idx, row, key, intro)
    s_futures,       \* per task: its state and the summary it computed
    s_calls,         \* per input row: the model calls made for it
    s_run            \* which run this is, and what the first run did

varsA == <<a_pc, rows, min_chars, meta_rows, all_sentences, offset,
           a_sentence_embeddings, course_embeddings>>
varsU == <<u_pc, u_fn, u_args, u_ret>>

varsB == <<b_pc, files, args, meta, sentences, sentence_embeddings, aspects,
           keyword_weights, keyword_vectors, configs, records, scores_table,
           b_error>>

varsE == <<e_pc, e_args, e_start, outputs, model_calls, e_ret>>

varsL == <<cache_kind, cache_file, appended, cache_lock, appenders>>

varsC == <<c_pc, c_courses, cache, c_idx, c_pass, ask_calls, c_results>>

varsI == <<i_pc, i_run, i_inputs, db, db_first, requests, course_id_map>>

varsO == <<o_pc, o_args, start_line, o_courses, o_idx, output_csv, o_before, classified, o_runs>>

varsS == <<s_pc, s_args, s_rows, s_out, s_tasks, s_futures, s_calls, s_run>>

vars == <<varsA, varsU, varsB, varsE, varsL, varsC, varsI, varsO, varsS>>

\* A part of the pipeline that does not run in a specification.
IdleA ==
    /\ a_pc = "idle" /\ rows = <<>> /\ min_chars = 0
    /\ meta_rows = <<>> /\ all_sentences = <<>> /\ offset = 0
    /\ a_sentence_embeddings = <<>> /\ course_embeddings = <<>>

IdleU ==
    /\ u_pc = "idle" /\ u_fn = "" /\ u_args = <<>> /\ u_ret = <<>>

IdleB ==
    /\ b_pc = "idle" /\ files = <<>> /\ args = <<>> /\ meta = <<>>
    /\ sentences = <<>> /\ sentence_embeddings = <<>> /\ aspects = <<>>
    /\ keyword_weights = <<>> /\ keyword_vectors = <<>> /\ configs = <<>>
    /\ records = <<>> /\ scores_table = <<>> /\ b_error = ""

IdleE ==
    /\ e_pc = "idle" /\ e_args = <<>> /\ e_start = 0 /\ outputs = <<>>
    /\ model_calls = <<>> /\ e_ret = <<>>

IdleL ==
    /\ cache_kind = "idle" /\ cache_file = <<>> /\ appended = <<>>
    /\ cache_lock = "" /\ appenders = <<>>

IdleC ==
    /\ c_pc = "idle" /\ c_courses = <<>> /\ cache = <<>> /\ c_idx = 0
    /\ c_pass = 0 /\ ask_calls = <<>> /\ c_results = <<>>

IdleI ==
    /\ i_pc = "idle" /\ i_run = 0 /\ i_inputs = <<>> /\ db = <<>>
    /\ db_first = <<>> /\ requests = <<>> /\ course_id_map = <<>>

IdleO ==
    /\ o_pc = "idle" /\ o_args = <<>> /\ start_line = 0 /\ o_courses = <<>>
    /\ o_idx = 0 /\ output_csv = <<>> /\ o_before = <<>> /\ classified = <<>>
    /\ o_runs = 0

IdleS ==
    /\ s_pc = "idle" /\ s_args = <<>> /\ s_rows = <<>> /\ s_out = <<>>
    /\ s_tasks = <<>> /\ s_futures = <<>> /\ s_calls = <<>> /\ s_run = <<>>

(***************************************************************************)
(* Bounds of the model.                                                    *)
(***************************************************************************)
MaxRows == 2
MaxTextLen == 2

(***************************************************************************)
(* Generic helpers.                                                        *)
(***************************************************************************)
SeqsUpTo(S, n) == UNION {[1..k -> S] : k \in 0..n}

RECURSIVE Flatten(_)
Flatten(ss) == IF ss = <<>> THEN <<>> ELSE Head(ss) \o Flatten(Tail(ss))

\* The dot product of two vectors.
RECURSIVE Dot(_, _)
Dot(u, v) ==
    IF u = <<>> \/ v = <<>> THEN 0
    ELSE Head(u) * Head(v) + Dot(Tail(u), Tail(v))

Min2(a, b) == IF a <= b THEN a ELSE b
Max2(a, b) == IF a >= b THEN a ELSE b

\* Python's seq[lo : hi] for 0 <= lo, with the clamping a slice does.
PySlice(s, lo, hi) ==
    LET h == Min2(Max2(hi, 0), Len(s))
        l == Min2(Max2(lo, 0), Len(s))
    IN  IF l >= h THEN <<>> ELSE SubSeq(s, l + 1, h)

(***************************************************************************)
(* Stage A: sentence segmentation.                                         *)
(***************************************************************************)
\* The characters of the texts: a stop followed by whitespace, a stop that
\* needs none, and whitespace; a stop is a non-whitespace character like
\* any other when nothing splits after it.
Chars == {".", " ", "U3002"}
Whitespace == {" "}
AsciiStops == {".", "!", "?", ";", ":"}
CjkStops == {"U3002", "UFF01", "UFF1F", "UFF1B", "UFF1A"}

Texts == SeqsUpTo(Chars, MaxTextLen)
MinCharsValues == {0, 2}

RECURSIVE LStrip(_)
LStrip(s) ==
    IF s # <<>> /\ Head(s) \in Whitespace THEN LStrip(Tail(s)) ELSE s

RECURSIVE RStrip(_)
RStrip(s) ==
    IF s # <<>> /\ s[Len(s)] \in Whitespace
    THEN RStrip(SubSeq(s, 1, Len(s) - 1))
    ELSE s

\* str.strip()
Strip(s) == RStrip(LStrip(s))

\* re.sub(r"\s+", " ", text)
RECURSIVE CollapseWhitespace(_)
CollapseWhitespace(s) ==
    IF s = <<>> THEN <<>>
    ELSE IF Head(s) \in Whitespace
         THEN <<" ">> \o CollapseWhitespace(LStrip(Tail(s)))
         ELSE <<Head(s)>> \o CollapseWhitespace(Tail(s))

_normalize_whitespace(text) == Strip(CollapseWhitespace(text))

\* First index >= i of s that is not whitespace (Len(s) + 1 if none).
RECURSIVE SkipWhitespace(_, _)
SkipWhitespace(s, i) ==
    IF i <= Len(s) /\ s[i] \in Whitespace THEN SkipWhitespace(s, i + 1) ELSE i

\* SENTENCE_SPLIT_PATTERN.split(s), scanning s from index i with the piece
\* accumulated so far: a run of whitespace after an ASCII stop is a
\* separator, and the position right after a CJK stop is an empty separator
\* (also at the end of the string, which yields a last empty piece).
RECURSIVE SplitFrom(_, _, _)
SplitFrom(s, i, piece) ==
    IF i > Len(s) THEN <<piece>>
    ELSE IF s[i] \in CjkStops
         THEN <<Append(piece, s[i])>> \o SplitFrom(s, i + 1, <<>>)
    ELSE IF s[i] \in AsciiStops /\ i < Len(s) /\ s[i + 1] \in Whitespace
         THEN <<Append(piece, s[i])>>
                  \o SplitFrom(s, SkipWhitespace(s, i + 1), <<>>)
    ELSE SplitFrom(s, i + 1, Append(piece, s[i]))

SENTENCE_SPLIT(s) == SplitFrom(s, 1, <<>>)

_split_sentences(text, min) ==
    IF text = <<>> THEN <<>>
    ELSE LET normalized == _normalize_whitespace(text) IN
         IF normalized = <<>> THEN <<>>
         ELSE LET pieces == SENTENCE_SPLIT(normalized)
                  stripped == [i \in 1..Len(pieces) |-> Strip(pieces[i])]
              IN  SelectSeq(stripped, LAMBDA p : Len(p) >= min)

(***************************************************************************)
(* Stage A: main.  `rows` holds the input rows the loop has consumed; the  *)
(* text of the next row is an input of the iteration that reads it.        *)
(***************************************************************************)
InitA ==
    /\ a_pc = "loop"
    /\ rows = <<>>
    /\ min_chars \in MinCharsValues
    /\ meta_rows = <<>>
    /\ all_sentences = <<>>
    /\ offset = 0
    /\ a_sentence_embeddings = <<>>
    /\ course_embeddings = <<>>
    /\ IdleU
    /\ IdleB
    /\ IdleE
    /\ IdleL
    /\ IdleC
    /\ IdleI
    /\ IdleO
    /\ IdleS

\* The meta row the loop body appends for one input row, built before the
\* running offset is advanced.
MetaRowShifted(row, sents, off) ==
    [id |-> row.row_id,
     num_sentences |-> Len(sents),
     sentences_offset |-> off + Len(sents),
     sentences_count |-> Len(sents),
     text_chars |-> Len(row.text)]

MetaRow(row, sents, off) ==
    [id |-> row.row_id,
     num_sentences |-> Len(sents),
     sentences_offset |-> off,
     sentences_count |-> Len(sents),
     text_chars |-> Len(row.text)]

\* One iteration of `for row in rows`.
ASplitRow ==
    /\ a_pc = "loop"
    /\ Len(rows) < MaxRows
    /\ \E text \in Texts :
         LET row == [row_id |-> Len(rows) + 1, text |-> text]
             sents == _split_sentences(text, min_chars)
         IN  /\ rows' = Append(rows, row)
             /\ meta_rows' = Append(meta_rows, MetaRow(row, sents, offset))
             /\ offset' = offset + Len(sents)
             /\ all_sentences' = all_sentences \o sents
    /\ UNCHANGED <<a_pc, min_chars, a_sentence_embeddings, course_embeddings,
                   varsU, varsB, varsE, varsL, varsC, varsI, varsO, varsS>>

(***************************************************************************)
(* Stage A: the embeddings.  The embedding model is a function from texts  *)
(* to raw vectors.  The raw vectors of the model lie on one line through   *)
(* the origin (both directions, and the origin), so that every mean and    *)
(* every normalized row is exact in fixed point.                           *)
(***************************************************************************)
SentenceModels == {"s2"}

EncodeSentence(model, text) ==
    CASE Len(text) = 0 -> <<0, 0>>
      [] Len(text) = 1 -> <<30, 40>>
      [] OTHER -> <<-30, -40>>

ZeroVector == <<0, 0>>

\* Integer square root, by bisection.
RECURSIVE SqrtBetween(_, _, _)
SqrtBetween(x, lo, hi) ==
    IF hi - lo <= 1 THEN lo
    ELSE LET mid == (lo + hi) \div 2 IN
         IF mid * mid <= x THEN SqrtBetween(x, mid, hi)
         ELSE SqrtBetween(x, lo, mid)

\* The sum of the absolute components of one row.
RowNormL1(row) ==
    LET Abs(x) == IF x < 0 THEN -x ELSE x IN Abs(row[1]) + Abs(row[2])

\* np.linalg.norm of one row.
RowNorm(row) == SqrtBetween(Dot(row, row), 0, 2048)

\* Stage A's _l2_normalize: norms of the rows, 1.0 in place of a zero norm,
\* every row divided by its entry of norms, the rows of zero norm set to
\* zero (components in 1/10 after the division).
_l2_normalize_matrix(matrix) ==
    LET norms == [r \in 1..Len(matrix) |-> RowNorm(matrix[r])]
        zero_mask == [r \in 1..Len(matrix) |-> norms[r] = 0]
        divisors == [r \in 1..Len(matrix) |->
                        IF zero_mask[r] THEN 1 ELSE norms[r]]
    IN  [r \in 1..Len(matrix) |->
            IF zero_mask[r] THEN [i \in 1..Len(matrix[r]) |-> 0]
            ELSE [i \in 1..Len(matrix[r]) |->
                     (10 * matrix[r][i]) \div divisors[r]]]

\* _encode_sentences, as a whole: no sentences give a matrix of no rows.
_encode_sentences(model, sents) ==
    IF sents = <<>> THEN <<>>
    ELSE _l2_normalize_matrix(
             [i \in 1..Len(sents) |-> EncodeSentence(model, sents[i])])

RECURSIVE SumRows(_)
SumRows(slice) ==
    IF Len(slice) = 1 THEN slice[1]
    ELSE LET rest == SumRows(Tail(slice)) IN
         [i \in 1..Len(slice[1]) |-> slice[1][i] + rest[i]]

\* slice_.mean(axis=0), in 1/12 of the unit of the rows (the counts of the
\* model divide 12).
MeanRow(slice) ==
    [i \in 1..Len(slice[1]) |-> (12 * SumRows(slice)[i]) \div Len(slice)]

\* The row of one course before the normalization: zero unless the course
\* has a non-empty slice of sentence rows.
CourseRowIgnoringCount(meta_row, matrix) ==
    LET slice_ == PySlice(matrix, meta_row.sentences_offset,
                          meta_row.sentences_offset + 1)
    IN  IF slice_ = <<>> THEN ZeroVector ELSE MeanRow(slice_)

CourseRow(meta_row, matrix) ==
    LET slice_ == PySlice(matrix, meta_row.sentences_offset,
                          meta_row.sentences_offset + meta_row.sentences_count)
    IN  IF meta_row.sentences_count <= 0 THEN ZeroVector
        ELSE IF slice_ = <<>> THEN ZeroVector
        ELSE MeanRow(slice_)

_compute_course_embeddings(meta_rows_, matrix) ==
    IF matrix = <<>> THEN [i \in 1..Len(meta_rows_) |-> ZeroVector]
    ELSE _l2_normalize_matrix(
             [i \in 1..Len(meta_rows_) |-> CourseRow(meta_rows_[i], matrix)])

\* The input is exhausted: the loop ends, the sentences are encoded, the
\* course embeddings computed and the artifacts written.
AFinish ==
    /\ a_pc = "loop"
    /\ a_pc' = "done"
    /\ \E model \in SentenceModels :
          /\ a_sentence_embeddings' = _encode_sentences(model, all_sentences)
          /\ course_embeddings' =
                 _compute_course_embeddings(meta_rows, a_sentence_embeddings')
    /\ UNCHANGED <<rows, min_chars, meta_rows, all_sentences, offset, varsU, varsB, varsE, varsL, varsC,
                   varsI, varsO, varsS>>

NextA == ASplitRow \/ AFinish

SpecA == InitA /\ [][NextA]_vars

(***************************************************************************)
(* C1: the course metadata partitions the global sentence list exactly:    *)
(* the first offset is 0, offset[i] + count[i] = offset[i+1] for           *)
(* consecutive courses, the last offset plus count is the length of the    *)
(* list, and the slice [offset_i, offset_i + count_i) is the segmentation  *)
(* of course i's text, in order.                                           *)
(***************************************************************************)
C1_MetaPartitionsSentences ==
    /\ Len(meta_rows) = Len(rows)
    /\ Len(meta_rows) > 0 => meta_rows[1].sentences_offset = 0
    /\ \A i \in 1..(Len(meta_rows) - 1) :
          meta_rows[i].sentences_offset + meta_rows[i].sentences_count
              = meta_rows[i + 1].sentences_offset
    /\ Len(meta_rows) > 0 =>
          meta_rows[Len(meta_rows)].sentences_offset
              + meta_rows[Len(meta_rows)].sentences_count = Len(all_sentences)
    /\ Len(meta_rows) = 0 => all_sentences = <<>>
    /\ \A i \in 1..Len(meta_rows) :
          LET o == meta_rows[i].sentences_offset
              c == meta_rows[i].sentences_count
          IN  /\ o >= 0 /\ c >= 0 /\ o + c <= Len(all_sentences)
              /\ SubSeq(all_sentences, o + 1, o + c)
                     = _split_sentences(rows[i].text, min_chars)

\* Two courses done, the first with several sentences, the second with some.
C1_Witness ==
    /\ a_pc = "done"
    /\ Len(meta_rows) = 2
    /\ meta_rows[1].sentences_count >= 2
    /\ meta_rows[2].sentences_count >= 1
    /\ meta_rows[2].sentences_offset = meta_rows[1].sentences_count

(***************************************************************************)
(* Stage B: numbers.  Embedding vectors have components in 1/10, so a dot  *)
(* product of two of them (a cosine similarity) is in 1/100; tau and gamma *)
(* are in 1/100 too; hit activations, coverage, quality and score are in   *)
(* 1/1000; alpha is in 1/100.                                              *)
(***************************************************************************)
RECURSIVE SumSeq(_)
SumSeq(s) == IF s = <<>> THEN 0 ELSE Head(s) + SumSeq(Tail(s))

\* 1000 / (1 + exp(-z)), rounded, for an integer z.
LogisticMilli(z) ==
    CASE z <= -8 -> 0
      [] z = -7 -> 1
      [] z = -6 -> 2
      [] z = -5 -> 7
      [] z = -4 -> 18
      [] z = -3 -> 47
      [] z = -2 -> 119
      [] z = -1 -> 269
      [] z = 0 -> 500
      [] z = 1 -> 731
      [] z = 2 -> 881
      [] z = 3 -> 953
      [] z = 4 -> 982
      [] z = 5 -> 993
      [] z = 6 -> 998
      [] z = 7 -> 999
      [] OTHER -> 1000

\* h_k = 1 / (1 + exp(-(s_k - tau) / gamma)), for gamma > 0; the quotient
\* is taken to the integer below.
HitActivation(s_k, tau, gamma) == LogisticMilli((s_k - tau) \div gamma)

\* np.argmax(sim, axis=0)[k]: the first row of column k holding the
\* column's maximum (rows 1..Len(sim) here, 0-based in the results).
ArgMaxLast(sim, k) ==
    CHOOSE i \in 1..Len(sim) :
        /\ \A j \in 1..Len(sim) : sim[j][k] <= sim[i][k]
        /\ \A j \in (i + 1)..Len(sim) : sim[j][k] < sim[i][k]

ArgMax(sim, k) ==
    CHOOSE i \in 1..Len(sim) :
        /\ \A j \in 1..Len(sim) : sim[j][k] <= sim[i][k]
        /\ \A j \in 1..(i - 1) : sim[j][k] < sim[i][k]

\* list.sort(key=hit, reverse=True) of (index, hit) pairs: stable, so equal
\* hits keep their order.
RECURSIVE InsertByHitDesc(_, _)
InsertByHitDesc(sorted, item) ==
    IF sorted = <<>> THEN <<item>>
    ELSE IF Head(sorted).hit >= item.hit
         THEN <<Head(sorted)>> \o InsertByHitDesc(Tail(sorted), item)
         ELSE <<item>> \o sorted

RECURSIVE SortByHitDesc(_)
SortByHitDesc(items) ==
    IF items = <<>> THEN <<>>
    ELSE InsertByHitDesc(SortByHitDesc(SubSeq(items, 1, Len(items) - 1)),
                         items[Len(items)])

\* seq[:k] as Python takes it: a negative k counts from the end.
PyPrefix(s, k) ==
    IF k >= 0 THEN SubSeq(s, 1, Min2(k, Len(s)))
    ELSE SubSeq(s, 1, Max2(Len(s) + k, 0))

(***************************************************************************)
(* Stage B: _score_course_aspect.                                          *)
(***************************************************************************)
ZeroResult ==
    [ok |-> TRUE, error |-> "", coverage |-> 0, quality |-> 0, score |-> 0,
     keyword_scores |-> <<>>, evidence |-> <<>>]

ErrorResult(msg) ==
    [ok |-> FALSE, error |-> msg, coverage |-> 0, quality |-> 0, score |-> 0,
     keyword_scores |-> <<>>, evidence |-> <<>>]

\* evidence_candidates: the keywords whose hit exceeds the threshold, in
\* keyword order.
EvidenceCandidatesAtLeast(h_k, hit_threshold) ==
    LET idxs == SelectSeq([k \in 1..Len(h_k) |-> k],
                          LAMBDA k : h_k[k] >= hit_threshold)
    IN  [n \in 1..Len(idxs) |-> [idx |-> idxs[n], hit |-> h_k[idxs[n]]]]

EvidenceCandidates(h_k, hit_threshold) ==
    LET idxs == SelectSeq([k \in 1..Len(h_k) |-> k],
                          LAMBDA k : h_k[k] > hit_threshold)
    IN  [n \in 1..Len(idxs) |-> [idx |-> idxs[n], hit |-> h_k[idxs[n]]]]

\* The early return: no sentence rows (embedded_sentences.size == 0) or
\* no keywords.
IsEmptyInputKeywordsOnly(embedded_sentences, aspect_configs) ==
    Len(aspect_configs) = 0

IsEmptyInput(embedded_sentences, aspect_configs) ==
    Len(embedded_sentences) = 0 \/ Len(aspect_configs) = 0

_score_course_aspect(embedded_sentences, sentence_offset, course_sentences, aspect_configs, tau, gamma, alpha, topk_hits, hit_threshold) ==
    LET num_keywords == Len(aspect_configs)
        num_sentences == Len(embedded_sentences)
    IN
    IF IsEmptyInput(embedded_sentences, aspect_configs) THEN ZeroResult
    ELSE
    LET sim == [i \in 1..num_sentences |->
                   [k \in 1..num_keywords |->
                       Dot(embedded_sentences[i], aspect_configs[k].vector)]]
        \* sim.size == 0: s_k = -1.0 and argmax -1 for every keyword
        argmax_indices == [k \in 1..num_keywords |->
                              IF num_sentences = 0 THEN -1
                              ELSE ArgMax(sim, k) - 1]
        s_k == [k \in 1..num_keywords |->
                   IF num_sentences = 0 THEN -100
                   ELSE sim[argmax_indices[k] + 1][k]]
    IN
    IF gamma <= 0 THEN ErrorResult("ValueError: gamma must be positive")
    ELSE
    LET h_k == [k \in 1..num_keywords |-> HitActivation(s_k[k], tau, gamma)]
        weighted_hits == [k \in 1..num_keywords |->
                             (aspect_configs[k].weight.num * h_k[k])
                                 \div aspect_configs[k].weight.den]
        coverage == SumSeq(weighted_hits)
        \* weighted_hits * s_01, with s_01 = (s_k + 1) / 2
        weighted_s01 == [k \in 1..num_keywords |->
                            (weighted_hits[k] * (s_k[k] + 100)) \div 200]
        \* denom = coverage + 1e-8: the guard only matters when coverage
        \* is 0, and then the numerator is 0 as well.
        quality == IF coverage > 0
                   THEN (1000 * SumSeq(weighted_s01)) \div coverage
                   ELSE 0
        score == (alpha * coverage + (100 - alpha) * quality) \div 100
        keyword_scores ==
            [k \in 1..num_keywords |->
                [keyword |-> aspect_configs[k].keyword,
                 weight |-> aspect_configs[k].weight,
                 cosine |-> s_k[k],
                 hit |-> h_k[k],
                 sentence_local_index |->
                     IF argmax_indices[k] >= 0 THEN argmax_indices[k]
                     ELSE "None",
                 sentence_global_index |->
                     IF argmax_indices[k] >= 0
                     THEN sentence_offset + argmax_indices[k]
                     ELSE "None"]]
        candidates == SelectSeq(EvidenceCandidates(h_k, hit_threshold),
                                LAMBDA c : argmax_indices[c.idx] >= 0)
        chosen == PyPrefix(SortByHitDesc(candidates), topk_hits)
    IN
    IF \E n \in 1..Len(chosen) :
           argmax_indices[chosen[n].idx] >= Len(course_sentences)
    THEN ErrorResult("IndexError: list index out of range")
    ELSE
    [ok |-> TRUE, error |-> "",
     coverage |-> coverage, quality |-> quality, score |-> score,
     keyword_scores |-> keyword_scores,
     evidence |->
        [n \in 1..Len(chosen) |->
            LET k == chosen[n].idx IN
            [keyword |-> aspect_configs[k].keyword,
             cosine |-> s_k[k],
             hit |-> h_k[k],
             sentence_local_index |-> argmax_indices[k],
             sentence_global_index |-> sentence_offset + argmax_indices[k],
             sentence |-> course_sentences[argmax_indices[k] + 1]]]]

(***************************************************************************)
(* _score_course_aspect on its own: the arguments of one call are drawn    *)
(* from bounded sets, and the call returns.                                *)
(***************************************************************************)
DEFAULT_TAU == 70
DEFAULT_GAMMA == 6
DEFAULT_ALPHA == 60
DEFAULT_TOPK_HITS == 5
DEFAULT_HIT_THRESHOLD == 500

MaxSent == 2
MaxKw == 2

SentenceVectors == {<<10, 0>>, <<6, 8>>, <<0, 0>>}
KeywordVectors == {<<10, 0>>, <<0, 10>>, <<8, 6>>}
GammaValues == {0, DEFAULT_GAMMA}
TopkValues == {-1, 0, 1, DEFAULT_TOPK_HITS}
\* 731 is the hit activation of a similarity of 0.80 under the defaults.
HitThresholdValues == {DEFAULT_HIT_THRESHOLD, 731}
OffsetValues == {0, 3}

\* The text of the i-th sentence of the course in this call.
SentenceName(i) == <<"sentence", i>>
KeywordName(k) == <<"keyword", k>>

InitScore ==
    /\ u_pc = "call"
    /\ u_fn = "_score_course_aspect"
    /\ \E c \in 0..MaxSent, n \in 0..MaxKw :
       \E emb \in [1..c -> SentenceVectors], kv \in [1..n -> KeywordVectors] :
       \E g \in GammaValues, topk \in TopkValues,
          thr \in HitThresholdValues, off \in OffsetValues :
          u_args = [sentence_embeddings |-> emb,
                    sentence_offset |-> off,
                    course_sentences |-> [i \in 1..c |-> SentenceName(i)],
                    configs |-> [k \in 1..n |->
                                    [keyword |-> KeywordName(k),
                                     normalized |-> KeywordName(k),
                                     vector |-> kv[k],
                                     weight |-> [num |-> 1, den |-> n]]],
                    tau |-> DEFAULT_TAU, gamma |-> g, alpha |-> DEFAULT_ALPHA,
                    topk_hits |-> topk, hit_threshold |-> thr]
    /\ u_ret = <<>>
    /\ IdleA
    /\ IdleB
    /\ IdleE
    /\ IdleL
    /\ IdleC
    /\ IdleI
    /\ IdleO
    /\ IdleS

ScoreCall ==
    /\ u_pc = "call"
    /\ u_fn = "_score_course_aspect"
    /\ u_ret' = _score_course_aspect(
                    u_args.sentence_embeddings, u_args.sentence_offset,
                    u_args.course_sentences, u_args.configs, u_args.tau,
                    u_args.gamma, u_args.alpha, u_args.topk_hits,
                    u_args.hit_threshold)
    /\ u_pc' = "returned"
    /\ UNCHANGED <<u_fn, u_args, varsA, varsB, varsE, varsL, varsC, varsI,
                   varsO, varsS>>

NextScore == ScoreCall

SpecScore == InitScore /\ [][NextScore]_vars

ScoreReturned ==
    /\ u_fn = "_score_course_aspect"
    /\ u_pc = "returned"

(***************************************************************************)
(* C2: for a course with at least one sentence and an aspect with at least *)
(* one keyword, the evidence list holds only keywords whose hit is         *)
(* strictly above hit_threshold, each once, in non-increasing order of     *)
(* hit; no omitted keyword above the threshold has a greater hit than an   *)
(* included one; and for topk_hits >= 0 the list has                       *)
(* min(topk_hits, number of keywords above the threshold) entries.         *)
(***************************************************************************)
C2_EvidenceIsTopHits ==
    (/\ ScoreReturned
     /\ u_ret.ok
     /\ Len(u_args.sentence_embeddings) >= 1
     /\ Len(u_args.configs) >= 1) =>
        LET ks == u_ret.keyword_scores
            ev == u_ret.evidence
            thr == u_args.hit_threshold
            topk == u_args.topk_hits
            above == {k \in 1..Len(ks) : ks[k].hit > thr}
            included == {k \in 1..Len(ks) :
                            \E n \in 1..Len(ev) : ev[n].keyword = ks[k].keyword}
        IN  /\ \A n \in 1..Len(ev) :
                  \E k \in above : /\ ev[n].keyword = ks[k].keyword
                                   /\ ev[n].hit = ks[k].hit
                                   /\ ev[n].cosine = ks[k].cosine
            /\ \A n \in 1..Len(ev) : ev[n].hit > thr
            /\ Cardinality(included) = Len(ev)
            /\ \A n \in 1..(Len(ev) - 1) : ev[n].hit >= ev[n + 1].hit
            /\ \A k \in above \ included :
                  \A j \in included : ks[k].hit <= ks[j].hit
            /\ topk >= 0 => Len(ev) = Min2(topk, Cardinality(above))

\* Two keywords above the threshold with different hits and topk_hits = 1:
\* the evidence is the one with the greater hit.
C2_Witness ==
    /\ ScoreReturned
    /\ u_ret.ok
    /\ u_args.topk_hits = 1
    /\ Len(u_ret.keyword_scores) = 2
    /\ u_ret.keyword_scores[1].hit > u_args.hit_threshold
    /\ u_ret.keyword_scores[2].hit > u_ret.keyword_scores[1].hit
    /\ Len(u_ret.evidence) = 1
    /\ u_ret.evidence[1].keyword = KeywordName(2)

(***************************************************************************)
(* C4: for a course with at least one sentence, the cosine recorded for a  *)
(* keyword is the maximum of its similarities over the course's sentences  *)
(* and sentence_local_index is the smallest index attaining it.            *)
(***************************************************************************)
C4_BestSentenceIsFirstMax ==
    (/\ ScoreReturned
     /\ u_ret.ok
     /\ Len(u_args.sentence_embeddings) >= 1) =>
        \A k \in 1..Len(u_ret.keyword_scores) :
            LET emb == u_args.sentence_embeddings
                col == [i \in 1..Len(emb) |->
                           Dot(emb[i], u_args.configs[k].vector)]
                e == u_ret.keyword_scores[k]
                li == e.sentence_local_index
            IN  /\ li \in 0..(Len(emb) - 1)
                /\ e.cosine = col[li + 1]
                /\ \A i \in 1..Len(emb) : col[i] <= e.cosine
                /\ \A i \in 1..li : col[i] < e.cosine

\* Two sentences tie for the maximum of a keyword: the first one is recorded.
C4_Witness ==
    /\ ScoreReturned
    /\ u_ret.ok
    /\ Len(u_args.sentence_embeddings) = 2
    /\ u_args.sentence_embeddings[1] = u_args.sentence_embeddings[2]
    /\ Len(u_ret.keyword_scores) >= 1
    /\ u_ret.keyword_scores[1].cosine > 0
    /\ u_ret.keyword_scores[1].sentence_local_index = 0

(***************************************************************************)
(* C7: a call with zero sentences or zero keywords returns coverage,       *)
(* quality and score 0 with empty keyword_scores and evidence and raises   *)
(* no error, whatever tau, gamma, alpha, topk_hits and hit_threshold are.  *)
(***************************************************************************)
C7_EmptyInputScoresZero ==
    (/\ ScoreReturned
     /\ \/ Len(u_args.sentence_embeddings) = 0
        \/ Len(u_args.configs) = 0) =>
        /\ u_ret.ok
        /\ u_ret.coverage = 0
        /\ u_ret.quality = 0
        /\ u_ret.score = 0
        /\ u_ret.keyword_scores = <<>>
        /\ u_ret.evidence = <<>>

\* A course without sentences scored against two keywords, with gamma = 0.
C7_Witness ==
    /\ ScoreReturned
    /\ Len(u_args.sentence_embeddings) = 0
    /\ Len(u_args.configs) = 2
    /\ u_args.gamma = 0
    /\ u_ret.ok
    /\ u_ret.score = 0

(***************************************************************************)
(* Stage B: the aspect configuration.  A raw JSON value is                 *)
(*   [kind |-> "str", text |-> characters]  a comma-separated string,      *)
(*   [kind |-> "list", items |-> <<characters, ...>>]  a list of strings,  *)
(*   [kind |-> "number"]  anything else.                                   *)
(***************************************************************************)
IGNORED_ASPECTS == {"entrepreneurship_relevance"}

\* value.split(",")
RECURSIVE SplitComma(_, _)
SplitComma(text, piece) ==
    IF text = <<>> THEN <<piece>>
    ELSE IF Head(text) = ","
         THEN <<piece>> \o SplitComma(Tail(text), <<>>)
         ELSE SplitComma(Tail(text), Append(piece, Head(text)))

\* The keywords of one raw value, stripped, the empty ones dropped; the
\* value is rejected when it is no string or list, or nothing is left.
CleanKeywords(value) ==
    LET raw == IF value.kind = "str" THEN SplitComma(value.text, <<>>)
               ELSE value.items
        stripped == [i \in 1..Len(raw) |-> Strip(raw[i])]
    IN  SelectSeq(stripped, LAMBDA kw : kw # <<>>)

AspectValueError(value) ==
    IF value.kind \notin {"str", "list"} THEN "ValueError: must be a string or list"
    ELSE IF CleanKeywords(value) = <<>> THEN "ValueError: no keywords after cleaning"
    ELSE ""

\* A parse that validates the aspects scored only.
_parse_aspects_scored_only(raw) ==
    LET bad == {i \in 1..Len(raw) : /\ raw[i].name \notin IGNORED_ASPECTS
                                    /\ AspectValueError(raw[i].value) # ""}
    IN  IF bad # {}
        THEN [ok |-> FALSE,
              error |-> AspectValueError(
                  raw[CHOOSE i \in bad : \A j \in bad : i <= j].value),
              aspects |-> <<>>]
        ELSE [ok |-> TRUE, error |-> "",
              aspects |-> [i \in 1..Len(raw) |->
                              [name |-> raw[i].name,
                               keywords |-> CleanKeywords(raw[i].value)]]]

\* _parse_aspects: the aspects in file order, or the first error.
_parse_aspects(raw) ==
    LET bad == {i \in 1..Len(raw) : AspectValueError(raw[i].value) # ""}
    IN  IF bad # {}
        THEN [ok |-> FALSE,
              error |-> AspectValueError(
                  raw[CHOOSE i \in bad : \A j \in bad : i <= j].value),
              aspects |-> <<>>]
        ELSE [ok |-> TRUE, error |-> "",
              aspects |-> [i \in 1..Len(raw) |->
                              [name |-> raw[i].name,
                               keywords |-> CleanKeywords(raw[i].value)]]]

\* Nothing popped.
DropNothing(aspects_) == aspects_

\* aspects.pop(name) for the reserved names.
DropIgnored(aspects_) ==
    SelectSeq(aspects_, LAMBDA a : a.name \notin IGNORED_ASPECTS)

(***************************************************************************)
(* Stage B: keyword weights (IDF over the course texts).                   *)
(***************************************************************************)
WordChars == {"x", "y", "z", "X", "Y", "Z"}
TokenChars == WordChars \cup {"-", "'"}

LowerChar(c) ==
    CASE c = "X" -> "x" [] c = "Y" -> "y" [] c = "Z" -> "z"
      [] c = "D" -> "d" [] c = "I" -> "i" [] c = "M" -> "m"
      [] c = "A" -> "a" [] c = "H" -> "h" [] c = "E" -> "e" [] OTHER -> c

Lower(text) == [i \in 1..Len(text) |-> LowerChar(text[i])]

\* re.sub(r"\s+", " ", keyword.strip()).lower()
_normalize_keyword(keyword) == Lower(CollapseWhitespace(Strip(keyword)))

\* " ".join(segment)
RECURSIVE JoinSpace(_)
JoinSpace(segment) ==
    IF segment = <<>> THEN <<>>
    ELSE IF Len(segment) = 1 THEN Head(segment)
    ELSE Head(segment) \o <<" ">> \o JoinSpace(Tail(segment))

\* re.findall(r"\b[\w\-']+\b", text): the maximal runs of token characters,
\* each cut back to its first and last word character.
RECURSIVE TrimNonWord(_)
TrimNonWord(run) ==
    IF run = <<>> THEN <<>>
    ELSE IF Head(run) \notin WordChars THEN TrimNonWord(Tail(run))
    ELSE IF run[Len(run)] \notin WordChars
         THEN TrimNonWord(SubSeq(run, 1, Len(run) - 1))
    ELSE run

RECURSIVE TokenRuns(_, _)
TokenRuns(text, run) ==
    IF text = <<>> THEN <<run>>
    ELSE IF Head(text) \in TokenChars
         THEN TokenRuns(Tail(text), Append(run, Head(text)))
         ELSE <<run>> \o TokenRuns(Tail(text), <<>>)

FindTokens(text) ==
    LET runs == TokenRuns(text, <<>>)
        trimmed == [i \in 1..Len(runs) |-> TrimNonWord(runs[i])]
    IN  SelectSeq(trimmed, LAMBDA t : t # <<>>)

SeqToSet(s) == {s[i] : i \in 1..Len(s)}

\* re.search(rf"(?<!\w){phrase}(?!\w)", text)
_contains_phrase(text, phrase) ==
    /\ phrase # <<>>
    /\ \E i \in 1..(Len(text) - Len(phrase) + 1) :
          /\ SubSeq(text, i, i + Len(phrase) - 1) = phrase
          /\ (i = 1 \/ text[i - 1] \notin WordChars)
          /\ (i + Len(phrase) - 1 = Len(text)
                \/ text[i + Len(phrase)] \notin WordChars)

\* _build_course_texts: per meta row the normalized text and its token set.
CourseText(row, sents) ==
    IF row.sentences_count <= 0 THEN <<>>
    ELSE Lower(_normalize_whitespace(JoinSpace(
             PySlice(sents, row.sentences_offset,
                     row.sentences_offset + row.sentences_count))))

_build_course_texts(meta_df, sents) ==
    [i \in 1..Len(meta_df) |->
        LET text == CourseText(meta_df[i], sents)
        IN  [text |-> text, tokens |-> SeqToSet(FindTokens(text))]]

\* 1000 * ln(n), rounded.
LnMilli(n) ==
    CASE n <= 1 -> 0
      [] n = 2 -> 693
      [] n = 3 -> 1099
      [] n = 4 -> 1386
      [] n = 5 -> 1609
      [] n = 6 -> 1792
      [] n = 7 -> 1946
      [] OTHER -> 2079

\* The logarithm alone, without the 1.0 added to it.
IdfWithoutOffset(num_courses, df) == LnMilli(num_courses + 1) - LnMilli(df + 1)

\* math.log((num_courses + 1) / (df + 1)) + 1.0, in 1/1000
Idf(num_courses, df) == LnMilli(num_courses + 1) - LnMilli(df + 1) + 1000

\* The keywords of a list in order of first occurrence: the keys of the
\* dict the weights are stored in.
RECURSIVE DictKeys(_)
DictKeys(keywords) ==
    IF keywords = <<>> THEN <<>>
    ELSE LET rest == DictKeys(SubSeq(keywords, 1, Len(keywords) - 1))
             last == keywords[Len(keywords)]
         IN  IF last \in SeqToSet(rest) THEN rest ELSE Append(rest, last)

\* The IDF of the phrase alone, whether the phrase occurs or not.
KeywordIdfPhraseOnly(keyword, courses) ==
    Idf(Len(courses),
        Cardinality({i \in 1..Len(courses) :
                        _contains_phrase(courses[i].text, _normalize_keyword(keyword))}))

KeywordIdf(keyword, courses) ==
    LET normalized == _normalize_keyword(keyword)
        num_courses == Len(courses)
        doc_freq == Cardinality({i \in 1..num_courses :
                                    _contains_phrase(courses[i].text, normalized)})
        tokens == FindTokens(normalized)
        sub_idfs == [t \in 1..Len(tokens) |->
                        Idf(num_courses,
                            Cardinality({i \in 1..num_courses :
                                            tokens[t] \in courses[i].tokens}))]
    IN  IF doc_freq > 0 THEN Idf(num_courses, doc_freq)
        ELSE IF tokens # <<>> THEN SumSeq(sub_idfs) \div Len(tokens)
        ELSE LnMilli(num_courses + 1) + 1000

\* _compute_keyword_weights for one aspect: keyword -> weight, a fraction
\* [num, den] of the total over the dict's keys.
AspectWeights(keywords, courses) ==
    LET keys == DictKeys(keywords)
        idfs == [i \in 1..Len(keys) |-> KeywordIdf(keys[i], courses)]
        total == SumSeq(idfs)
    IN  [kw \in SeqToSet(keys) |->
            LET i == CHOOSE j \in 1..Len(keys) : keys[j] = kw
            IN  IF total <= 0 THEN [num |-> 1, den |-> Len(keys)]
                ELSE [num |-> idfs[i], den |-> total]]

_compute_keyword_weights(aspects_, courses) ==
    [a \in 1..Len(aspects_) |-> AspectWeights(aspects_[a].keywords, courses)]

\* _collect_keyword_embeddings: the distinct keywords of all aspects.
UniqueKeywords(aspects_) ==
    DictKeys(Flatten([a \in 1..Len(aspects_) |-> aspects_[a].keywords]))

\* Integer square root.
ISqrt(x) == CHOOSE r \in 0..(x + 1) : r * r <= x /\ (r + 1) * (r + 1) > x

\* _l2_normalize of one row: a zero row stays zero, any other row is divided
\* by its norm (components in 1/10 after the division).
_l2_normalize(row) ==
    LET norm == ISqrt(Dot(row, row))
    IN  IF norm = 0 THEN [i \in 1..Len(row) |-> 0]
        ELSE [i \in 1..Len(row) |-> (10 * row[i]) \div norm]

\* _prepare_keyword_configs: one KeywordConfig per listed keyword.
_prepare_keyword_configs(aspects_, keyword_weights_, keyword_vectors_) ==
    [a \in 1..Len(aspects_) |->
        [k \in 1..Len(aspects_[a].keywords) |->
            LET keyword == aspects_[a].keywords[k] IN
            [keyword |-> keyword,
             normalized |-> _normalize_keyword(keyword),
             vector |-> keyword_vectors_[keyword],
             weight |-> keyword_weights_[a][keyword]]]]

(***************************************************************************)
(* Stage B: calibration of one column of the scores table.  The raw column *)
(* is in units of MIN_STD (1e-6); the calibrated values are in 1/1000.     *)
(***************************************************************************)
MIN_STD == 1
Z_CDF_CLIP == 3

RECURSIVE SeqMin(_)
SeqMin(s) == IF Len(s) = 1 THEN s[1] ELSE Min2(Head(s), SeqMin(Tail(s)))

RECURSIVE SeqMax(_)
SeqMax(s) == IF Len(s) = 1 THEN s[1] ELSE Max2(Head(s), SeqMax(Tail(s)))

\* Sum over the pairs i < j of (col[i] - col[j])^2, which is n^2 times the
\* population variance (n * sum(x^2) - sum(x)^2).
RECURSIVE PairwiseSquares(_)
PairwiseSquares(col) ==
    IF Len(col) <= 1 THEN 0
    ELSE SumSeq([j \in 1..(Len(col) - 1) |->
                    (col[1] - col[j + 1]) * (col[1] - col[j + 1])])
         + PairwiseSquares(Tail(col))

\* sd < MIN_STD or np.isclose(sd, 0.0), with sd = col.std(ddof=0).  A pair
\* at least n * MIN_STD apart alone makes sd >= MIN_STD.
IsExactlyConstant(col) == SeqMax(col) = SeqMin(col)

IsNearConstant(col) ==
    LET n == Len(col) IN
    IF SeqMax(col) - SeqMin(col) >= n * MIN_STD THEN FALSE
    ELSE PairwiseSquares(col) < n * n * MIN_STD * MIN_STD

\* 1000 * Phi(q / 2), rounded, for q in -6..6.
NormalCdfMilli(q) ==
    CASE q <= -6 -> 1
      [] q = -5 -> 6
      [] q = -4 -> 23
      [] q = -3 -> 67
      [] q = -2 -> 159
      [] q = -1 -> 309
      [] q = 0 -> 500
      [] q = 1 -> 691
      [] q = 2 -> 841
      [] q = 3 -> 933
      [] q = 4 -> 977
      [] q = 5 -> 994
      [] OTHER -> 999

\* _gaussian_cdf_from_z on a z-score given in half units: clip, then Phi.
_gaussian_cdf_from_z(zhalf) ==
    NormalCdfMilli(Min2(Max2(zhalf, -2 * Z_CDF_CLIP), 2 * Z_CDF_CLIP))

\* z = (col - mu) / sd of row i in half units, to the integer below (and
\* no further than one half unit beyond the clip).  A z-score does not
\* change when the column is shifted and scaled: the column is taken
\* relative to its minimum, in steps that keep the range within 0..100.
ZScoreHalf(col, i) ==
    LET n == Len(col)
        lo == SeqMin(col)
        step == (SeqMax(col) - lo) \div 100 + 1
        y == [j \in 1..n |-> (col[j] - lo) \div step]
        a == n * y[i] - SumSeq(y)
        d == PairwiseSquares(y)
        lim == 2 * Z_CDF_CLIP + 1
    IN  IF a >= 0
        THEN CHOOSE q \in 0..lim :
                 /\ q * q * d <= 4 * a * a
                 /\ (q = lim \/ (q + 1) * (q + 1) * d > 4 * a * a)
        ELSE - (CHOOSE q \in 0..lim :
                 /\ (q = lim \/ q * q * d >= 4 * a * a)
                 /\ (q = 0 \/ (q - 1) * (q - 1) * d < 4 * a * a))

\* The calibration of one column (no value of the model is NaN).
CalibrateColumn(col) ==
    IF IsNearConstant(col) THEN [i \in 1..Len(col) |-> 500]
    ELSE [i \in 1..Len(col) |-> _gaussian_cdf_from_z(ZScoreHalf(col, i))]

\* The calibration step on the records: nothing for an empty table.
Calibrate(recs) ==
    IF recs = <<>> THEN recs
    ELSE LET cov == CalibrateColumn([i \in 1..Len(recs) |-> 1000 * recs[i].coverage])
             qua == CalibrateColumn([i \in 1..Len(recs) |-> 1000 * recs[i].quality])
             sco == CalibrateColumn([i \in 1..Len(recs) |-> 1000 * recs[i].score])
         IN  [i \in 1..Len(recs) |->
                 [recs[i] EXCEPT !.coverage = cov[i],
                                 !.quality = qua[i],
                                 !.score = sco[i]]]

(***************************************************************************)
(* The calibration of a column on its own.                                 *)
(***************************************************************************)
MaxTableRows == 3
RawColumnValues == {0, 1, 2, 500}

InitCal ==
    /\ u_pc = "call"
    /\ u_fn = "calibrate"
    /\ \E n \in 1..MaxTableRows : \E col \in [1..n -> RawColumnValues] :
          u_args = [column |-> col]
    /\ u_ret = <<>>
    /\ IdleA
    /\ IdleB
    /\ IdleE
    /\ IdleL
    /\ IdleC
    /\ IdleI
    /\ IdleO
    /\ IdleS

CalCall ==
    /\ u_pc = "call"
    /\ u_fn = "calibrate"
    /\ u_ret' = CalibrateColumn(u_args.column)
    /\ u_pc' = "returned"
    /\ UNCHANGED <<u_fn, u_args, varsA, varsB, varsE, varsL, varsC, varsI,
                   varsO, varsS>>

NextCal == CalCall

SpecCal == InitCal /\ [][NextCal]_vars

(***************************************************************************)
(* C10: when the population standard deviation of a raw column is below    *)
(* MIN_STD (a single row and a constant column included), every stored     *)
(* value of the column is exactly 0.5.                                     *)
(***************************************************************************)
C10_NearConstantColumnIsHalf ==
    (u_fn = "calibrate" /\ u_pc = "returned") =>
        LET col == u_args.column
            n == Len(col)
            sum == SumSeq(col)
            sumsq == SumSeq([i \in 1..n |-> col[i] * col[i]])
        IN  \* n^2 * sd^2 < n^2 * MIN_STD^2
            (n * sumsq - sum * sum < n * n * MIN_STD * MIN_STD) =>
                /\ Len(u_ret) = n
                /\ \A i \in 1..n : u_ret[i] = 500

\* A column of two rows that differ by less than MIN_STD would allow.
C10_Witness ==
    /\ u_fn = "calibrate"
    /\ u_pc = "returned"
    /\ u_args.column = <<1, 2>>
    /\ u_ret = <<500, 500>>

(***************************************************************************)
(* Stage B: compute_courses_scores.main.                                   *)
(*                                                                         *)
(* The run reads four files: the metadata and the sentences Stage A wrote, *)
(* an embedding matrix and the aspect configuration.  The metadata is in   *)
(* Stage A's shape (the courses tile the sentence list in file order); the *)
(* row ids are in any order.                                               *)
(***************************************************************************)
MaxCourses == 2

\* The i-th line of the sentences file.
SentenceText(i) ==
    CASE i = 1 -> <<"x">>
      [] i = 2 -> <<"x", " ", "y">>
      [] i = 3 -> <<"y", " ", "z">>
      [] OTHER -> <<"z">>

StoredVectors == {<<6, 8>>, <<10, 0>>}

\* Stage A's metadata for courses of the given sentence counts and ids.
StageAMeta(ids, counts) ==
    [i \in 1..Len(counts) |->
        [id |-> ids[i],
         sentences_offset |-> SumSeq(SubSeq(counts, 1, i - 1)),
         sentences_count |-> counts[i]]]

ListValue(items) == [kind |-> "list", text |-> <<>>, items |-> items]
StrValue(text) == [kind |-> "str", text |-> text, items |-> <<>>]
NumberValue == [kind |-> "number", text |-> <<>>, items |-> <<>>]

\* Aspect configurations: the JSON object's items in file order.
AspectFiles ==
    { <<>>,
      << [name |-> "A", value |-> ListValue(<< <<"x">> >>)] >>,
      << [name |-> "A", value |-> ListValue(<< <<"X">>, <<" ", "x", " ", "y">> >>)],
         [name |-> "B", value |-> StrValue(<<"z", ",", " ", "x", ",">>)] >>,
      << [name |-> "A", value |-> ListValue(<< <<"x">>, <<"z">> >>)],
         [name |-> "entrepreneurship_relevance",
          value |-> ListValue(<< <<"x", " ", "y">> >>)] >>,
      << [name |-> "entrepreneurship_relevance",
          value |-> ListValue(<< <<"x">> >>)] >>,
      << [name |-> "A", value |-> ListValue(<< <<"x">>, <<"x">> >>)] >>,
      << [name |-> "A", value |-> ListValue(<< <<" ">> >>)] >>,
      << [name |-> "A", value |-> NumberValue] >>,
      << [name |-> "A", value |-> StrValue(<<",", " ">>)] >>,
      << [name |-> "A", value |-> ListValue(<< <<"x">> >>)],
         [name |-> "entrepreneurship_relevance", value |-> ListValue(<<>>)] >> }

\* The scores table before the run, left by an earlier run.
EarlierTable == [written |-> TRUE, rows |-> << [course_id |-> 0] >>]

\* The embedding model is a function from texts to raw vectors; which one
\* is not known.
Models == {"m1", "m2"}

Encode(model, text) ==
    IF model = "m1"
    THEN (IF Len(text) = 1 THEN <<30, 40>> ELSE <<0, 20>>)
    ELSE (IF Head(text) = "x" THEN <<0, 20>> ELSE <<30, 40>>)

Injective(f) == \A i, j \in DOMAIN f : f[i] = f[j] => i = j

InitB ==
    /\ b_pc = "load"
    /\ \E m \in 0..MaxCourses, ne \in 0..MaxSent :
       \E counts \in [1..m -> 0..MaxSent], ids \in [1..m -> 1..m],
          emb \in [1..ne -> StoredVectors], aspects_file \in AspectFiles :
          /\ SumSeq(counts) <= MaxSent
          /\ Injective(ids)
          /\ files = [meta |-> StageAMeta(ids, counts),
                      sentences |-> [i \in 1..SumSeq(counts) |-> SentenceText(i)],
                      embeddings |-> emb,
                      aspects |-> aspects_file,
                      scores |-> EarlierTable]
    /\ scores_table = EarlierTable
    /\ \E g \in GammaValues :
          args = [tau |-> DEFAULT_TAU, gamma |-> g, alpha |-> DEFAULT_ALPHA,
                  topk_hits |-> DEFAULT_TOPK_HITS,
                  hit_threshold |-> DEFAULT_HIT_THRESHOLD]
    /\ meta = <<>> /\ sentences = <<>> /\ sentence_embeddings = <<>>
    /\ aspects = <<>> /\ keyword_weights = <<>> /\ keyword_vectors = <<>>
    /\ configs = <<>> /\ records = <<>> /\ b_error = ""
    /\ IdleA
    /\ IdleU
    /\ IdleE
    /\ IdleL
    /\ IdleC
    /\ IdleI
    /\ IdleO
    /\ IdleS

\* df.sort_values("id")
RECURSIVE InsertById(_, _)
InsertById(row, sorted) ==
    IF sorted = <<>> THEN <<row>>
    ELSE IF row.id < Head(sorted).id THEN <<row>> \o sorted
    ELSE <<Head(sorted)>> \o InsertById(row, Tail(sorted))

RECURSIVE SortById(_)
SortById(df) ==
    IF df = <<>> THEN <<>>
    ELSE InsertById(df[Len(df)], SortById(SubSeq(df, 1, Len(df) - 1)))

_load_meta(meta_file) == SortById(meta_file)

\* len(sentences) != sentence_embeddings.shape[0]
CountsMismatchFewerRows(num_lines, num_rows) == num_lines > num_rows

CountsMismatch(num_lines, num_rows) == num_lines # num_rows

\* main, lines 477-485: load the three artifacts, check the counts.
BLoad ==
    /\ b_pc = "load"
    /\ meta' = _load_meta(files.meta)
    /\ sentences' = files.sentences
    /\ sentence_embeddings' = files.embeddings
    /\ IF CountsMismatch(Len(files.sentences), Len(files.embeddings))
       THEN /\ b_pc' = "error"
            /\ b_error' = "ValueError: sentence text count does not match embeddings"
       ELSE /\ b_pc' = "parse"
            /\ b_error' = b_error
    /\ UNCHANGED <<files, args, aspects, keyword_weights, keyword_vectors,
                   configs, records, scores_table, varsA, varsU, varsE, varsL, varsC,
                                  varsI, varsO, varsS>>

\* main, lines 487-494: parse the aspects, drop the reserved ones.
BParseAspects ==
    /\ b_pc = "parse"
    /\ LET parsed == _parse_aspects(files.aspects) IN
       IF parsed.ok
       THEN /\ aspects' = DropIgnored(parsed.aspects)
            /\ b_pc' = "weights"
            /\ b_error' = b_error
       ELSE /\ aspects' = aspects
            /\ b_pc' = "error"
            /\ b_error' = parsed.error
    /\ UNCHANGED <<files, args, meta, sentences, sentence_embeddings,
                   keyword_weights, keyword_vectors, configs, records,
                   scores_table, varsA, varsU, varsE, varsL, varsC, varsI,
                                  varsO, varsS>>

\* main, lines 496-497: the keyword weights.
BWeights ==
    /\ b_pc = "weights"
    /\ keyword_weights' =
           _compute_keyword_weights(aspects, _build_course_texts(meta, sentences))
    /\ b_pc' = "encode"
    /\ UNCHANGED <<files, args, meta, sentences, sentence_embeddings, aspects,
                   keyword_vectors, configs, records, scores_table, b_error,
                   varsA, varsU, varsE, varsL, varsC, varsI, varsO, varsS>>

\* _collect_keyword_embeddings: one normalized vector per distinct keyword.
_collect_keyword_embeddings(aspects_, model) ==
    [kw \in SeqToSet(UniqueKeywords(aspects_)) |-> _l2_normalize(Encode(model, kw))]

\* main, lines 499-511: load the model, encode the keywords, build the
\* keyword configs.
BEncode ==
    /\ b_pc = "encode"
    /\ \E model \in Models :
          /\ keyword_vectors' = _collect_keyword_embeddings(aspects, model)
          /\ configs' = _prepare_keyword_configs(aspects, keyword_weights,
                                                 keyword_vectors')
    /\ b_pc' = "score"
    /\ UNCHANGED <<files, args, meta, sentences, sentence_embeddings, aspects,
                   keyword_weights, records, scores_table, b_error,
                   varsA, varsU, varsE, varsL, varsC, varsI, varsO, varsS>>

\* meta.iterrows(): every metadata row, in sorted order.
RowsWithSentences(meta_df) ==
    SelectSeq(meta_df, LAMBDA row : row.sentences_count > 0)

IterRows(meta_df) == meta_df

\* sentences[start : start + count]
CourseSentencesFromZero(sents, start, count) == PySlice(sents, 0, count)

CourseSentences(sents, start, count) == PySlice(sents, start, start + count)

\* sentence_embeddings[start : start + count]
EmbeddedSentences(matrix, start, count) == PySlice(matrix, start, start + count)

\* main, lines 514-544: one iteration of the inner loop.  The pairs are
\* taken course by course and, within a course, aspect by aspect; the pair
\* in turn is the one after the records appended so far.  An exception of
\* _score_course_aspect ends the run.
BScorePair ==
    /\ b_pc = "score"
    /\ Len(records) < Len(IterRows(meta)) * Len(configs)
    /\ LET row == IterRows(meta)[(Len(records) \div Len(configs)) + 1]
           a == (Len(records) % Len(configs)) + 1
           start == row.sentences_offset
           count == row.sentences_count
           result == _score_course_aspect(
                         EmbeddedSentences(sentence_embeddings, start, count),
                         start,
                         CourseSentences(sentences, start, count),
                         configs[a], args.tau, args.gamma, args.alpha,
                         args.topk_hits, args.hit_threshold)
       IN  IF result.ok
           THEN /\ records' = Append(records,
                       [course_id |-> row.id,
                        aspect |-> aspects[a].name,
                        coverage |-> result.coverage,
                        quality |-> result.quality,
                        score |-> result.score,
                        num_sentences |-> count,
                        num_keywords |-> Len(configs[a]),
                        keyword_scores |-> result.keyword_scores,
                        evidence |-> result.evidence])
                /\ b_pc' = b_pc
                /\ b_error' = b_error
           ELSE /\ records' = records
                /\ b_pc' = "error"
                /\ b_error' = result.error
    /\ UNCHANGED <<files, args, meta, sentences, sentence_embeddings, aspects,
                   keyword_weights, keyword_vectors, configs, scores_table,
                   varsA, varsU, varsE, varsL, varsC, varsI, varsO, varsS>>

\* main, lines 546-562: after the loops, calibrate and write the table.
BWrite ==
    /\ b_pc = "score"
    /\ Len(records) >= Len(IterRows(meta)) * Len(configs)
    /\ scores_table' = [written |-> TRUE, rows |-> Calibrate(records)]
    /\ b_pc' = "done"
    /\ UNCHANGED <<files, args, meta, sentences, sentence_embeddings, aspects,
                   keyword_weights, keyword_vectors, configs, records, b_error,
                   varsA, varsU, varsE, varsL, varsC, varsI, varsO, varsS>>

NextB ==
    \/ BLoad
    \/ BParseAspects
    \/ BWeights
    \/ BEncode
    \/ BScorePair
    \/ BWrite

SpecB == InitB /\ [][NextB]_vars

(***************************************************************************)
(* Claims about a Stage B run.                                             *)
(***************************************************************************)
ReservedName == "entrepreneurship_relevance"

\* The metadata row of a course id (ids are distinct).
MetaRowOf(course_id) ==
    CHOOSE row \in SeqToSet(files.meta) : row.id = course_id

\* The entries of one table row point into the row's own course.
IndicesStayInCourse(r) ==
    LET o == MetaRowOf(r.course_id).sentences_offset
        c == MetaRowOf(r.course_id).sentences_count
    IN  /\ \A k \in 1..Len(r.keyword_scores) :
              /\ r.keyword_scores[k].sentence_local_index \in 0..(c - 1)
              /\ r.keyword_scores[k].sentence_global_index
                     = o + r.keyword_scores[k].sentence_local_index
        /\ \A n \in 1..Len(r.evidence) :
              /\ r.evidence[n].sentence_local_index \in 0..(c - 1)
              /\ r.evidence[n].sentence_global_index
                     = o + r.evidence[n].sentence_local_index
              /\ r.evidence[n].sentence
                     = files.sentences[r.evidence[n].sentence_global_index + 1]

(***************************************************************************)
(* C3: for every course (offset o, count c) and aspect, each               *)
(* keyword_scores entry and each evidence entry has 0 <= local index < c   *)
(* and global index = o + local index, and each evidence entry's sentence  *)
(* is the element of the global sentence list at its global index.         *)
(***************************************************************************)
C3_IndicesStayInCourse ==
    /\ \A p \in 1..Len(records) : IndicesStayInCourse(records[p])
    /\ b_pc = "done" =>
          \A p \in 1..Len(scores_table.rows) :
              IndicesStayInCourse(scores_table.rows[p])

\* A written row of a course that does not start the sentence list, with an
\* evidence entry.
C3_Witness ==
    /\ b_pc = "done"
    /\ \E p \in 1..Len(scores_table.rows) :
          /\ MetaRowOf(scores_table.rows[p].course_id).sentences_offset > 0
          /\ scores_table.rows[p].evidence # <<>>
          /\ scores_table.rows[p].evidence[1].sentence_global_index
                 > scores_table.rows[p].evidence[1].sentence_local_index

(***************************************************************************)
(* C5: for every accepted keyword list, the weights of the keyword configs *)
(* of an aspect (one per listed keyword) sum to 1.                         *)
(***************************************************************************)
C5_ConfigWeightsSumToOne ==
    \A a \in 1..Len(configs) :
        LET den == configs[a][1].weight.den IN
        /\ \A k \in 1..Len(configs[a]) : configs[a][k].weight.den = den
        /\ SumSeq([k \in 1..Len(configs[a]) |-> configs[a][k].weight.num]) = den

(***************************************************************************)
(* C6: a run with gamma <= 0 scores no (course, aspect) pair and does not  *)
(* write the scores table.                                                 *)
(***************************************************************************)
C6_NonPositiveGammaRejectedBeforeScoring ==
    (b_pc # "idle" /\ args.gamma <= 0) =>
        /\ records = <<>>
        /\ b_pc # "done"
        /\ scores_table = files.scores

(***************************************************************************)
(* C8: when the number of sentence lines differs from the number of        *)
(* embedding rows the run stops with an error before it parses the         *)
(* aspects, encodes a keyword or scores a course, and the scores table     *)
(* stays as it was.                                                        *)
(***************************************************************************)
C8_CountMismatchAbortsFirst ==
    (b_pc # "idle" /\ Len(files.sentences) # Len(files.embeddings)) =>
        /\ b_pc \in {"load", "error"}
        /\ b_pc = "error" =>
              b_error = "ValueError: sentence text count does not match embeddings"
        /\ aspects = <<>>
        /\ keyword_weights = <<>>
        /\ keyword_vectors = <<>>
        /\ configs = <<>>
        /\ records = <<>>
        /\ scores_table = files.scores

\* The run has stopped on a matrix with more rows than there are lines, an
\* earlier table in place.
C8_Witness ==
    /\ b_pc = "error"
    /\ Len(files.sentences) < Len(files.embeddings)
    /\ Len(files.sentences) > 0
    /\ files.aspects # <<>>
    /\ scores_table = EarlierTable

(***************************************************************************)
(* C9: after a successful run the table has exactly one row per pair of a  *)
(* metadata row and a non-reserved aspect: metadata rows times             *)
(* non-reserved aspects rows, zero-sentence courses included, no           *)
(* (course_id, aspect) pair twice.                                         *)
(***************************************************************************)
C9_OneRowPerCourseAndAspect ==
    b_pc = "done" =>
        LET names == {files.aspects[i].name : i \in 1..Len(files.aspects)}
                         \ {ReservedName}
            table == scores_table.rows
        IN  /\ scores_table.written
            /\ Len(table) = Len(files.meta) * Cardinality(names)
            /\ \A i \in 1..Len(files.meta) : \A name \in names :
                   Cardinality({p \in 1..Len(table) :
                                   /\ table[p].course_id = files.meta[i].id
                                   /\ table[p].aspect = name}) = 1

\* A finished run over a course without sentences and one with, the ids
\* out of order, a reserved aspect in the configuration.
C9_Witness ==
    /\ b_pc = "done"
    /\ Len(files.meta) = 2
    /\ files.meta[1].id > files.meta[2].id
    /\ \E i \in 1..2 : files.meta[i].sentences_count = 0
    /\ \E i \in 1..2 : files.meta[i].sentences_count > 0
    /\ \E i \in 1..Len(files.aspects) : files.aspects[i].name = ReservedName
    /\ Len(scores_table.rows) = 2

(***************************************************************************)
(* Claims about Stage A.                                                   *)
(***************************************************************************)
NonWhitespace(text) == SelectSeq(text, LAMBDA c : c \notin Whitespace)

(***************************************************************************)
(* C11: every sentence Stage A produces is non-empty, has no leading or    *)
(* trailing whitespace and no whitespace but single spaces, and is at      *)
(* least min_chars long.                                                   *)
(***************************************************************************)
C11_SentencesAreClean ==
    \A n \in 1..Len(all_sentences) :
        LET sentence == all_sentences[n] IN
        /\ sentence # <<>>
        /\ Head(sentence) \notin Whitespace
        /\ sentence[Len(sentence)] \notin Whitespace
        /\ \A i \in 1..(Len(sentence) - 1) :
              ~(sentence[i] \in Whitespace /\ sentence[i + 1] \in Whitespace)
        /\ Len(sentence) >= min_chars

(***************************************************************************)
(* C12: for every non-empty course text the sentences of the course,       *)
(* joined with single spaces, keep every non-whitespace character of the   *)
(* text, in order.                                                         *)
(***************************************************************************)
C12_NoCharacterDropped ==
    \A i \in 1..Len(meta_rows) :
        rows[i].text # <<>> =>
            NonWhitespace(JoinSpace(SubSeq(all_sentences,
                meta_rows[i].sentences_offset + 1,
                meta_rows[i].sentences_offset + meta_rows[i].sentences_count)))
                = NonWhitespace(rows[i].text)

(***************************************************************************)
(* C13: a course whose text is empty or whitespace-only gets a metadata    *)
(* row with sentences_count = 0, leaves the running offset as it was for   *)
(* the next course, and its row of the course-embedding matrix is the zero *)
(* vector.                                                                 *)
(***************************************************************************)
C13_EmptyTextGivesZeroCourse ==
    /\ Len(meta_rows) = Len(rows)
    /\ a_pc \in {"loop", "done"}
    /\ a_pc = "done" => Len(course_embeddings) = Len(rows)
    /\ \A i \in 1..Len(rows) :
          NonWhitespace(rows[i].text) = <<>> =>
              /\ meta_rows[i].sentences_count = 0
              /\ meta_rows[i].num_sentences = 0
              /\ (IF i < Len(meta_rows) THEN meta_rows[i + 1].sentences_offset
                  ELSE offset) = meta_rows[i].sentences_offset
              /\ a_pc = "done" => course_embeddings[i] = <<0, 0>>

\* A whitespace-only course before a course with sentences, both written.
C13_Witness ==
    /\ a_pc = "done"
    /\ Len(rows) = 2
    /\ rows[1].text = <<" ">>
    /\ meta_rows[2].sentences_count > 0
    /\ course_embeddings[1] = <<0, 0>>
    /\ course_embeddings[2] # <<0, 0>>

(***************************************************************************)
(* The encoder: _encode_sentences of Stage A and _encode_texts of Stage B, *)
(* one batch of the loop per step.  Both have the same body; they differ   *)
(* in the model they are given and in the _l2_normalize of their module.   *)
(* The model returns rows of the expected dimension, so the RuntimeError   *)
(* of the dimension check is not raised.                                   *)
(***************************************************************************)
MaxStrings == 3
MaxBatch == 3

EncoderFns == {"_encode_sentences", "_encode_texts"}

TextPool == {<<"x">>, <<"x", " ", "y">>}

ModelsOf(fn) == IF fn = "_encode_sentences" THEN SentenceModels ELSE Models

\* The raw vector the model gives one text.
RawVector(fn, model, text) ==
    IF fn = "_encode_sentences" THEN EncodeSentence(model, text)
    ELSE Encode(model, text)

\* model.encode(batch, ...): one row per text of the batch.
ModelEncode(fn, model, batch) ==
    [i \in 1..Len(batch) |-> RawVector(fn, model, batch[i])]

\* _l2_normalize of the module the function is in.
L2NormalizeOf(fn, matrix) ==
    IF fn = "_encode_sentences" THEN _l2_normalize_matrix(matrix)
    ELSE [r \in 1..Len(matrix) |-> _l2_normalize(matrix[r])]

\* sentences[start : start + batch_size]
BatchOverlapping(texts, start_, size) == PySlice(texts, start_, start_ + size + 1)

Batch(texts, start_, size) == PySlice(texts, start_, start_ + size)

InitEnc ==
    /\ e_pc = "loop"
    /\ \E fn \in EncoderFns, n \in 0..MaxStrings, size \in 1..MaxBatch :
       \E model \in ModelsOf(fn), texts \in [1..n -> TextPool] :
          e_args = [fn |-> fn, model |-> model, texts |-> texts,
                    batch_size |-> size]
    /\ e_start = 0
    /\ outputs = <<>>
    /\ model_calls = <<>>
    /\ e_ret = <<>>
    /\ IdleA
    /\ IdleU
    /\ IdleB
    /\ IdleL
    /\ IdleC
    /\ IdleI
    /\ IdleO
    /\ IdleS

\* if not sentences: return np.zeros((0, EXPECTED_EMBED_DIM))
EncEmpty ==
    /\ e_pc = "loop"
    /\ e_args.texts = <<>>
    /\ e_ret' = <<>>
    /\ e_pc' = "returned"
    /\ UNCHANGED <<e_args, e_start, outputs, model_calls, varsA, varsU, varsB, varsL, varsC,
                   varsI, varsO, varsS>>

\* One turn of "for start in range(0, total, batch_size)".
EncBatch ==
    /\ e_pc = "loop"
    /\ e_args.texts # <<>>
    /\ e_start < Len(e_args.texts)
    /\ LET batch == Batch(e_args.texts, e_start, e_args.batch_size) IN
          /\ model_calls' = Append(model_calls, batch)
          /\ outputs' = Append(outputs,
                               ModelEncode(e_args.fn, e_args.model, batch))
    /\ e_start' = e_start + e_args.batch_size
    /\ UNCHANGED <<e_pc, e_args, e_ret, varsA, varsU, varsB, varsL, varsC,
                   varsI, varsO, varsS>>

\* After the loop: np.vstack(outputs), then _l2_normalize.
EncReturn ==
    /\ e_pc = "loop"
    /\ e_args.texts # <<>>
    /\ e_start >= Len(e_args.texts)
    /\ e_ret' = L2NormalizeOf(e_args.fn, Flatten(outputs))
    /\ e_pc' = "returned"
    /\ UNCHANGED <<e_args, e_start, outputs, model_calls, varsA, varsU, varsB, varsL, varsC,
                   varsI, varsO, varsS>>

NextEnc == EncEmpty \/ EncBatch \/ EncReturn

SpecEnc == InitEnc /\ [][NextEnc]_vars

\* C14: for n strings and a batch size b >= 1 the encoder calls the model
\* ceil(n / b) times, one call after the other, call j on the next slice of
\* at most b strings (strings (j-1)b+1 .. min(jb, n)), and returns n rows,
\* row i being the normalized vector of string i; for n = 0 it makes no call
\* and returns no row.
C14_EncoderBatches ==
    e_pc \in {"loop", "returned"} =>
        LET n == Len(e_args.texts)
            b == e_args.batch_size
        IN  /\ b >= 1
            /\ e_start = b * Len(model_calls)
            /\ Len(outputs) = Len(model_calls)
            /\ \A j \in 1..Len(model_calls) :
                  /\ Len(model_calls[j]) = Min2(b, n - (j - 1) * b)
                  /\ Len(model_calls[j]) >= 1
                  /\ \A i \in 1..Len(model_calls[j]) :
                        model_calls[j][i] = e_args.texts[(j - 1) * b + i]
            /\ e_pc = "returned" =>
                  /\ Len(model_calls) = (n + b - 1) \div b
                  /\ Len(e_ret) = n
                  /\ \A i \in 1..n :
                        e_ret[i] = L2NormalizeOf(e_args.fn,
                                       <<RawVector(e_args.fn, e_args.model,
                                                   e_args.texts[i])>>)[1]
                  /\ n = 0 => model_calls = <<>> /\ e_ret = <<>>

C14_Witness ==
    /\ e_pc = "returned"
    /\ Len(e_args.texts) = 3
    /\ e_args.batch_size = 2
    /\ Len(model_calls) = 2
    /\ Len(model_calls[2]) = 1
    /\ e_ret[1] # e_ret[2]
    /\ e_ret[2] # e_ret[3]

(***************************************************************************)
(* Further claims about Stage B.                                           *)
(***************************************************************************)
\* A raw aspect value that is neither a string nor a list, or that has no
\* part (of a string, between commas) or item (of a list) with a character
\* that is not whitespace.
InvalidAspectValue(value) ==
    CASE value.kind = "str" ->
            \A c \in 1..Len(value.text) : value.text[c] \in Whitespace \cup {","}
      [] value.kind = "list" ->
            \A k \in 1..Len(value.items) :
               \A c \in 1..Len(value.items[k]) : value.items[k][c] \in Whitespace
      [] OTHER -> TRUE

\* C15: when some aspect of the configuration, reserved or not, has a value
\* that is no string or list or has no keyword left after cleaning, the run
\* stops with an error before any keyword is weighted, embedded or scored
\* and the scores table stays as it was; the keywords of a string value are
\* its comma-separated parts, stripped, in order.
C15_InvalidAspectAborts ==
    b_pc # "idle" =>
        /\ (\E i \in 1..Len(files.aspects) :
                InvalidAspectValue(files.aspects[i].value)) =>
               /\ b_pc \in {"load", "parse", "error"}
               /\ b_pc = "error" => b_error # ""
               /\ aspects = <<>>
               /\ keyword_weights = <<>>
               /\ keyword_vectors = <<>>
               /\ configs = <<>>
               /\ records = <<>>
               /\ scores_table = files.scores
        /\ b_pc \notin {"load", "parse", "error"} =>
               \A i \in 1..Len(files.aspects) :
                  LET raw == files.aspects[i] IN
                  (raw.value.kind = "str" /\ raw.name \notin IGNORED_ASPECTS) =>
                     \E a \in 1..Len(aspects) :
                        /\ aspects[a].name = raw.name
                        /\ \A k \in 1..Len(aspects[a].keywords) :
                              LET kw == aspects[a].keywords[k] IN
                              /\ kw # <<>>
                              /\ Head(kw) \notin Whitespace
                              /\ kw[Len(kw)] \notin Whitespace
                              /\ \A c \in 1..Len(kw) : kw[c] # ","
                        /\ Flatten(aspects[a].keywords) =
                              SelectSeq(Strip(raw.value.text),
                                        LAMBDA c : c # "," /\ c \notin Whitespace)
                        /\ raw.value.text = <<"z", ",", " ", "x", ",">>
                              => aspects[a].keywords = << <<"z">>, <<"x">> >>

\* The run has stopped on a configuration whose only invalid aspect is the
\* reserved one, an earlier table in place.
C15_Witness ==
    /\ b_pc = "error"
    /\ Len(files.sentences) = Len(files.embeddings)
    /\ Len(files.aspects) = 2
    /\ ~InvalidAspectValue(files.aspects[1].value)
    /\ files.aspects[2].name \in IGNORED_ASPECTS
    /\ InvalidAspectValue(files.aspects[2].value)
    /\ scores_table = EarlierTable

\* The configuration file without its reserved aspects.
WithoutReserved(aspects_file) ==
    SelectSeq(aspects_file, LAMBDA item : item.name # ReservedName)

\* The rows a run on the files and arguments at hand writes for a given
\* configuration and model, every pair scored without an error.
TableOf(aspects_file, model) ==
    LET aspects_ == _parse_aspects(aspects_file).aspects
        weights_ == _compute_keyword_weights(aspects_,
                        _build_course_texts(_load_meta(files.meta), files.sentences))
        vectors_ == _collect_keyword_embeddings(aspects_, model)
        configs_ == _prepare_keyword_configs(aspects_, weights_, vectors_)
        rows_ == _load_meta(files.meta)
        RecordOf(p) ==
            LET row == rows_[((p - 1) \div Len(configs_)) + 1]
                a == ((p - 1) % Len(configs_)) + 1
                result == _score_course_aspect(
                              PySlice(files.embeddings, row.sentences_offset,
                                      row.sentences_offset + row.sentences_count),
                              row.sentences_offset,
                              PySlice(files.sentences, row.sentences_offset,
                                      row.sentences_offset + row.sentences_count),
                              configs_[a], args.tau, args.gamma, args.alpha,
                              args.topk_hits, args.hit_threshold)
            IN  [course_id |-> row.id,
                 aspect |-> aspects_[a].name,
                 coverage |-> result.coverage,
                 quality |-> result.quality,
                 score |-> result.score,
                 num_sentences |-> row.sentences_count,
                 num_keywords |-> Len(configs_[a]),
                 keyword_scores |-> result.keyword_scores,
                 evidence |-> result.evidence]
    IN  Calibrate([p \in 1..(Len(rows_) * Len(configs_)) |-> RecordOf(p)])

\* The keywords of the aspects that are not reserved.
ScoredKeywords ==
    UNION { SeqToSet(CleanKeywords(files.aspects[i].value)) :
              i \in {j \in 1..Len(files.aspects) :
                        files.aspects[j].name # ReservedName} }

\* C16: the reserved aspect is left out of the scoring: no record and no
\* row of the written table carries it, only the keywords of the other
\* aspects are embedded, and the written table is the table of the same run
\* on the configuration without the reserved aspect (so that adding,
\* removing or changing its keyword list changes no row).
C16_ReservedAspectExcluded ==
    b_pc # "idle" =>
        /\ \A a \in 1..Len(aspects) : aspects[a].name # ReservedName
        /\ \A r \in 1..Len(records) : records[r].aspect # ReservedName
        /\ keyword_vectors # <<>> => DOMAIN keyword_vectors = ScoredKeywords
        /\ \A a \in 1..Len(keyword_weights) :
              DOMAIN keyword_weights[a] \subseteq ScoredKeywords
        /\ b_pc = "done" =>
              /\ \A r \in 1..Len(scores_table.rows) :
                    scores_table.rows[r].aspect # ReservedName
              /\ \A model \in Models :
                    keyword_vectors = _collect_keyword_embeddings(aspects, model)
                    => scores_table.rows =
                           TableOf(WithoutReserved(files.aspects), model)

\* A finished run on a configuration with one scored aspect and a reserved
\* aspect whose keyword is none of the scored ones, some course scoring
\* above zero.
C16_Witness ==
    /\ b_pc = "done"
    /\ Len(files.aspects) = 2
    /\ files.aspects[2].name = ReservedName
    /\ CleanKeywords(files.aspects[2].value) # <<>>
    /\ SeqToSet(CleanKeywords(files.aspects[2].value)) \cap ScoredKeywords = {}
    /\ \E r \in 1..Len(scores_table.rows) : scores_table.rows[r].coverage > 0

(***************************************************************************)
(* _compute_keyword_weights on its own: one aspect of two keywords over a  *)
(* corpus of courses of one sentence each.                                 *)
(***************************************************************************)
MaxCorpus == 3

CorpusTexts ==
    {<<"x", " ", "y">>, <<"y", " ", "x">>, <<"x">>, <<"x", " ", "y", " ", "z">>}

KeywordPool ==
    {<<"y", " ", "x">>, <<"x", " ", "y">>, <<"x">>, <<"z">>, <<"-">>}

InitWeights ==
    /\ u_pc = "call"
    /\ u_fn = "_compute_keyword_weights"
    /\ \E n \in 0..MaxCorpus :
       \E sents \in [1..n -> CorpusTexts], keywords \in [1..2 -> KeywordPool] :
          u_args = [aspects |-> << [name |-> "A", keywords |-> keywords] >>,
                    meta |-> StageAMeta([i \in 1..n |-> i], [i \in 1..n |-> 1]),
                    sentences |-> sents]
    /\ u_ret = <<>>
    /\ IdleA
    /\ IdleB
    /\ IdleE
    /\ IdleL
    /\ IdleC
    /\ IdleI
    /\ IdleO
    /\ IdleS

WeightsCall ==
    /\ u_pc = "call"
    /\ u_fn = "_compute_keyword_weights"
    /\ u_ret' = _compute_keyword_weights(
                    u_args.aspects,
                    _build_course_texts(u_args.meta, u_args.sentences))
    /\ u_pc' = "returned"
    /\ UNCHANGED <<u_fn, u_args, varsA, varsB, varsE, varsL, varsC, varsI,
                   varsO, varsS>>

NextWeights == WeightsCall

SpecWeights == InitWeights /\ [][NextWeights]_vars

\* The courses of the call, and in how many of them a phrase occurs.
CallCourses == _build_course_texts(u_args.meta, u_args.sentences)

PhraseDf(keyword) ==
    Cardinality({i \in 1..Len(CallCourses) :
                    _contains_phrase(CallCourses[i].text, _normalize_keyword(keyword))})

\* Every token of the keyword occurs in every course.
TokensUbiquitous(keyword) ==
    \A t \in SeqToSet(FindTokens(_normalize_keyword(keyword))) :
       \A i \in 1..Len(CallCourses) : t \in CallCourses[i].tokens

\* weight of k0 < weight of k1, as fractions
WeightBelow(w0, w1) == w0.num * w1.den < w1.num * w0.den

\* C17 as stated: for every corpus, a keyword whose phrase occurs in no
\* course and whose tokens each occur in every course has a lower weight in
\* its aspect than a keyword whose phrase occurs in exactly one course.
C17_UbiquitousTokensWeighLess ==
    (u_pc = "returned" /\ u_fn = "_compute_keyword_weights") =>
        \A k0, k1 \in SeqToSet(u_args.aspects[1].keywords) :
           (/\ PhraseDf(k0) = 0
            /\ TokensUbiquitous(k0)
            /\ PhraseDf(k1) = 1)
           => WeightBelow(u_ret[1][k0], u_ret[1][k1])

\* C17, amended: the same for every corpus of at least two courses and
\* every such keyword that has at least one token.
C17_UbiquitousTokensWeighLessInLargerCorpus ==
    (u_pc = "returned" /\ u_fn = "_compute_keyword_weights") =>
        \A k0, k1 \in SeqToSet(u_args.aspects[1].keywords) :
           (/\ Len(CallCourses) >= 2
            /\ FindTokens(_normalize_keyword(k0)) # <<>>
            /\ PhraseDf(k0) = 0
            /\ TokensUbiquitous(k0)
            /\ PhraseDf(k1) = 1)
           => /\ KeywordIdf(k0, CallCourses) < KeywordIdf(k1, CallCourses)
              /\ WeightBelow(u_ret[1][k0], u_ret[1][k1])

\* Three courses, all with the tokens x and y, the phrase "y x" in none and
\* the phrase "z" in exactly one.
C17_Witness ==
    /\ u_pc = "returned"
    /\ u_fn = "_compute_keyword_weights"
    /\ Len(CallCourses) = 3
    /\ u_args.aspects[1].keywords = << <<"y", " ", "x">>, <<"z">> >>
    /\ PhraseDf(<<"y", " ", "x">>) = 0
    /\ TokensUbiquitous(<<"y", " ", "x">>)
    /\ PhraseDf(<<"z">>) = 1
    /\ WeightBelow(u_ret[1][<<"y", " ", "x">>], u_ret[1][<<"z">>])

(***************************************************************************)
(* The normalizations on their own: _l2_normalize of Stage A, _l2_normalize*)
(* of Stage B, and the mean pooling of _compute_course_embeddings.  Raw    *)
(* rows have norms that are whole numbers (zero included), so that a       *)
(* normalized row is exact in fixed point; the rows pooled for a course    *)
(* are normalized sentence rows on one line through the origin, or zero.   *)
(***************************************************************************)
MaxMatrixRows == 3

NormFns ==
    {"embeddings._l2_normalize", "scores._l2_normalize",
     "_compute_course_embeddings"}

RawRowPool == {<<0, 0>>, <<30, 40>>, <<-30, -40>>, <<0, 20>>, <<40, 30>>, <<6, 8>>}

SentenceRowPool == {<<0, 0>>, <<6, 8>>, <<-6, -8>>}

InitNorm ==
    /\ u_pc = "call"
    /\ \/ /\ u_fn \in {"embeddings._l2_normalize", "scores._l2_normalize"}
          /\ \E n \in 0..MaxMatrixRows : \E matrix \in [1..n -> RawRowPool] :
                u_args = [matrix |-> matrix, meta_rows |-> <<>>]
       \/ /\ u_fn = "_compute_course_embeddings"
          /\ \E m \in 1..MaxRows : \E counts \in [1..m -> 0..MaxMatrixRows] :
                /\ SumSeq(counts) <= MaxMatrixRows
                /\ \E matrix \in [1..SumSeq(counts) -> SentenceRowPool] :
                      u_args = [matrix |-> matrix,
                                meta_rows |-> StageAMeta([i \in 1..m |-> i], counts)]
    /\ u_ret = <<>>
    /\ IdleA
    /\ IdleB
    /\ IdleE
    /\ IdleL
    /\ IdleC
    /\ IdleI
    /\ IdleO
    /\ IdleS

NormCall ==
    /\ u_pc = "call"
    /\ u_fn \in NormFns
    /\ u_ret' =
          CASE u_fn = "embeddings._l2_normalize" ->
                  _l2_normalize_matrix(u_args.matrix)
            [] u_fn = "scores._l2_normalize" ->
                  [r \in 1..Len(u_args.matrix) |-> _l2_normalize(u_args.matrix[r])]
            [] OTHER ->
                  _compute_course_embeddings(u_args.meta_rows, u_args.matrix)
    /\ u_pc' = "returned"
    /\ UNCHANGED <<u_fn, u_args, varsA, varsB, varsE, varsL, varsC, varsI,
                   varsO, varsS>>

NextNorm == NormCall

SpecNorm == InitNorm /\ [][NextNorm]_vars

\* The rows before the normalization: the matrix given, or the pooled rows
\* of the courses (the mean of a course's sentence rows, zero for a course
\* without sentences).
RawRows ==
    IF u_fn = "_compute_course_embeddings"
    THEN [i \in 1..Len(u_args.meta_rows) |->
             LET o == u_args.meta_rows[i].sentences_offset
                 c == u_args.meta_rows[i].sentences_count
             IN  IF c = 0 THEN <<0, 0>>
                 ELSE [d \in 1..2 |->
                          SumSeq([k \in 1..c |-> 12 * u_args.matrix[o + k][d]]) \div c]]
    ELSE u_args.matrix

\* The number a raw row is divided by: its norm, or 1 when the norm is 0.
Divisor(raw) ==
    IF Dot(raw, raw) = 0 THEN 1
    ELSE CHOOSE q \in 1..2048 : q * q = Dot(raw, raw)

\* C18: every row returned is the zero vector or has norm 1; it is the zero
\* vector exactly when the raw row has norm zero, and then the row was not
\* divided by its norm (the divisor is 1); any other row is the raw row
\* divided by its norm.
C18_RowsAreZeroOrUnit ==
    (u_pc = "returned" /\ u_fn \in NormFns) =>
        /\ Len(u_ret) = Len(RawRows)
        /\ \A r \in 1..Len(u_ret) :
              LET raw == RawRows[r] IN
              /\ u_ret[r] = ZeroVector \/ Dot(u_ret[r], u_ret[r]) = 100
              /\ (u_ret[r] = ZeroVector) <=> (Dot(raw, raw) = 0)
              /\ Divisor(raw) # 0
              /\ u_ret[r] = [d \in 1..2 |-> (10 * raw[d]) \div Divisor(raw)]

\* Courses pooled to a unit row and to the zero row: one without sentences
\* or with sentence rows that cancel, next to one with a non-zero mean.
C18_Witness ==
    /\ u_pc = "returned"
    /\ u_fn = "_compute_course_embeddings"
    /\ Len(u_ret) = 2
    /\ u_args.meta_rows[1].sentences_count = 2
    /\ u_args.matrix[1] = <<6, 8>>
    /\ u_args.matrix[2] = <<-6, -8>>
    /\ u_ret[1] = ZeroVector
    /\ u_ret[2] = <<-6, -8>>

(***************************************************************************)
(* The on-disk LLM-response caches: people_summaries.jsonl of              *)
(* summarize_people_profiles.py and the cache of                           *)
(* run_coursebook_classification.py.  The file is a sequence of lines, a   *)
(* line a sequence of JSON tokens.  Python values carry their type: a key  *)
(* is a str, a value a str (a summary) or a dict (a classification).       *)
(***************************************************************************)
MaxLines == 3

Appenders == {"t1", "t2"}

CacheKeys == {"k1", "k2"}

PyStr(text) == [type |-> "str", val |-> text]
PyDict(members) == [type |-> "dict", val |-> members]
PyNone == [type |-> "NoneType", val |-> ""]

\* The values a run appends: summaries (the empty summary included), or
\* classification results.
CacheValues(kind) ==
    IF kind = "summaries" THEN {PyStr(""), PyStr("s1")}
    ELSE {PyDict([entre_score |-> 10]), PyDict([entre_score |-> 15])}

\* json.dumps of one value / json.loads of one token.
JsonOf(value) ==
    CASE value.type = "str" -> [json |-> "string", text |-> value.val]
      [] value.type = "dict" -> [json |-> "object", text |-> value.val]
      [] OTHER -> [json |-> "null", text |-> ""]

PyOf(token) ==
    CASE token.json = "string" -> PyStr(token.text)
      [] token.json = "object" -> PyDict(token.text)
      [] OTHER -> PyNone

\* json.dumps({"k": key, "v": val}, ensure_ascii=False) + "\n": one line.
JsonLine(key, val) ==
    << [json |-> "{", text |-> ""],
       [json |-> "member", text |-> "k", value |-> JsonOf(PyStr(key))],
       [json |-> "member", text |-> "v", value |-> JsonOf(val)],
       [json |-> "}", text |-> ""] >>

\* Lines no append wrote: a blank line, a line that is no JSON, a JSON list.
BlankLine == <<>>
BrokenLine == << [json |-> "{", text |-> ""] >>
ListLine == << [json |-> "[", text |-> ""], [json |-> "]", text |-> ""] >>

\* json.loads(line): the object's members, or the failure the handler
\* around it catches (no JSON, or an obj without .get).
JsonLoads(line) ==
    IF /\ Len(line) >= 2
       /\ line[1].json = "{"
       /\ line[Len(line)].json = "}"
       /\ \A i \in 2..(Len(line) - 1) : line[i].json = "member"
    THEN [ok |-> TRUE,
          members |-> [i \in 1..(Len(line) - 2) |->
                          [name |-> line[i + 1].text,
                           value |-> PyOf(line[i + 1].value)]]]
    ELSE [ok |-> FALSE, members |-> <<>>]

\* obj.get(name, default): the last member of that name.
ObjGet(members, name, default) ==
    LET hits == {i \in 1..Len(members) : members[i].name = name}
    IN  IF hits = {} THEN default
        ELSE members[CHOOSE i \in hits : \A j \in hits : j <= i].value

\* "if k": None and the empty string are false.
Truthy(value) == value.type # "NoneType" /\ value.val # ""

\* cache[k] = v
DictPut(cache_, k, v) ==
    [x \in DOMAIN cache_ \cup {k} |-> IF x = k THEN v ELSE cache_[x]]

EmptyDict == [x \in {} |-> PyNone]

\* Whether the loader keeps an entry.
KeepsEntry(kind, k, v) ==
    IF kind = "summaries" THEN Truthy(k)
    ELSE Truthy(k) /\ v.type = "dict"

\* A loader that keeps the first entry of a key.
RECURSIVE _load_cache_first_wins(_, _)
_load_cache_first_wins(kind, lines) ==
    IF lines = <<>> THEN EmptyDict
    ELSE LET rest == _load_cache_first_wins(kind, Tail(lines))
             line == Head(lines)
             obj == JsonLoads(line)
             k == ObjGet(obj.members, "k", PyNone)
             v == ObjGet(obj.members, "v",
                         IF kind = "summaries" THEN PyStr("") ELSE PyNone)
         IN  IF line = <<>> THEN rest
             ELSE IF ~obj.ok THEN rest
             ELSE IF KeepsEntry(kind, k, v) THEN DictPut(rest, k.val, v)
             ELSE rest

\* _load_cache: the lines in order, blank lines and lines that fail to load
\* skipped, a later entry of a key replacing an earlier one.
RECURSIVE _load_cache(_, _)
_load_cache(kind, lines) ==
    IF lines = <<>> THEN EmptyDict
    ELSE LET before == _load_cache(kind, SubSeq(lines, 1, Len(lines) - 1))
             line == lines[Len(lines)]
             obj == JsonLoads(line)
             k == ObjGet(obj.members, "k", PyNone)
             v == ObjGet(obj.members, "v",
                         IF kind = "summaries" THEN PyStr("") ELSE PyNone)
         IN  IF line = <<>> THEN before
             ELSE IF ~obj.ok THEN before
             ELSE IF KeepsEntry(kind, k, v) THEN DictPut(before, k.val, v)
             ELSE before

\* The cache as loaded from the file at hand.
LoadedCache == _load_cache(cache_kind, cache_file)

NotAppending == [pc |-> "idle", key |-> "", val |-> PyNone]

InitCache ==
    /\ cache_kind \in {"summaries", "classification"}
    /\ cache_file \in {<<>>, <<BlankLine>>, <<BrokenLine>>, <<ListLine>>}
    /\ appended = <<>>
    /\ cache_lock = ""
    /\ appenders = [t \in Appenders |-> NotAppending]
    /\ IdleA
    /\ IdleU
    /\ IdleB
    /\ IdleE
    /\ IdleC
    /\ IdleI
    /\ IdleO
    /\ IdleS

\* A thread calls _append_cache(path, key, val) and waits for the lock.
AppendCall(t) ==
    /\ cache_kind \in {"summaries", "classification"}
    /\ appenders[t].pc = "idle"
    /\ Len(appended)
         + Cardinality({x \in Appenders : appenders[x].pc # "idle"}) < MaxLines
    /\ \E key \in CacheKeys, val \in CacheValues(cache_kind) :
          appenders' = [appenders EXCEPT ![t] =
                           [pc |-> "waiting", key |-> key, val |-> val]]
    /\ UNCHANGED <<cache_kind, cache_file, appended, cache_lock,
                   varsA, varsU, varsB, varsE, varsC, varsI, varsO, varsS>>

\* with _CACHE_LOCK:
AppendAcquire(t) ==
    /\ appenders[t].pc = "waiting"
    /\ cache_lock = ""
    /\ cache_lock' = t
    /\ appenders' = [appenders EXCEPT ![t].pc = "writing"]
    /\ UNCHANGED <<cache_kind, cache_file, appended, varsA, varsU, varsB, varsE, varsC,
                   varsI, varsO, varsS>>

\* f.write(json.dumps(...) + "\n"), the file closed and the lock released.
AppendWrite(t) ==
    /\ appenders[t].pc = "writing"
    /\ cache_lock = t
    /\ cache_file' = Append(cache_file, JsonLine(appenders[t].key, appenders[t].val))
    /\ appended' = Append(appended, [k |-> appenders[t].key, v |-> appenders[t].val,
                                     by |-> t])
    /\ cache_lock' = ""
    /\ appenders' = [appenders EXCEPT ![t] = NotAppending]
    /\ UNCHANGED <<cache_kind, varsA, varsU, varsB, varsE, varsC, varsI,
                   varsO, varsS>>

NextCache ==
    \E t \in Appenders : AppendCall(t) \/ AppendAcquire(t) \/ AppendWrite(t)

SpecCache == InitCache /\ [][NextCache]_vars

\* The entries appended, each (key, value) pair only the first time.
FirstOccurrences ==
    SelectSeq([i \in 1..Len(appended) |->
                  [k |-> appended[i].k, v |-> appended[i].v,
                   first |-> \A j \in 1..(i - 1) :
                                appended[j].k # appended[i].k
                                \/ appended[j].v # appended[i].v]],
              LAMBDA e : e.first)

\* C19: the cache loaded from the file has exactly the keys appended, each
\* with the value of the last entry appended for it; and when no key was
\* appended with two different values, it is the cache loaded from a file
\* in which every entry was appended once only.
C19_LoadGivesLastAppended ==
    cache_kind \in {"summaries", "classification"} =>
        /\ DOMAIN LoadedCache = {appended[i].k : i \in 1..Len(appended)}
        /\ \A i \in 1..Len(appended) :
              (\A j \in (i + 1)..Len(appended) : appended[j].k # appended[i].k)
              => LoadedCache[appended[i].k] = appended[i].v
        /\ (\A i, j \in 1..Len(appended) :
               appended[i].k = appended[j].k => appended[i].v = appended[j].v)
           => LoadedCache =
                 _load_cache(cache_kind,
                             [i \in 1..Len(FirstOccurrences) |->
                                 JsonLine(FirstOccurrences[i].k,
                                          FirstOccurrences[i].v)])

\* The same entry appended by two threads with another key's entry between
\* them, after a line that is no JSON.
C19_Witness ==
    /\ cache_kind = "summaries"
    /\ Len(cache_file) = 4
    /\ cache_file[1] = BrokenLine
    /\ Len(appended) = 3
    /\ appended[1].k = appended[3].k
    /\ appended[1].v = appended[3].v
    /\ appended[1].by # appended[3].by
    /\ appended[2].k # appended[1].k
    /\ LoadedCache[appended[1].k] = PyStr("")

(***************************************************************************)
(* run_coursebook_classification.py: classify_course with its cache, and   *)
(* main's loop over the courses.  Two passes over the same courses are     *)
(* modelled: the second with the cache of the first, either the dict in    *)
(* memory or the dict a new run loads from the file.  Every course has a   *)
(* description, so main calls classify_course for each.  The sha256 of     *)
(* _make_cache_key is taken to be free of collisions.                      *)
(***************************************************************************)
MaxCourseList == 2

Titles == {"Venture Lab", "Algebra"}
Sections == {"MTE", "MTE "}

\* str.strip() on the strings of the model.
StripStr(text) == IF text = "MTE " THEN "MTE" ELSE text

\* extract_title_keywords: the TITLE_KEYWORDS contained in the lowered title.
extract_title_keywords(title) ==
    IF title = "Venture Lab" THEN <<"venture">> ELSE <<>>

\* build_prompt: the parts of the prompt that vary.
build_prompt(course_description, course_title, section, keyword_matches) ==
    [title |-> StripStr(course_title),
     section |-> StripStr(section),
     signals |-> SeqToSet(keyword_matches),
     section_bonus |-> (StripStr(section) = "MTE"),
     description |-> StripStr(course_description)]

\* hashlib.sha256(...).hexdigest() of the pieces: one digest per prompt (the
\* model name and the system prompt are the same in every call).
HashedPrompts ==
    << build_prompt("d", "Venture Lab", "MTE", <<"venture">>),
       build_prompt("d", "Algebra", "MTE", <<>>) >>

Digests == <<"h1", "h2">>

Sha256(prompt) ==
    Digests[CHOOSE i \in 1..Len(HashedPrompts) : HashedPrompts[i] = prompt]

_make_cache_key(course_description, course_title, section, keyword_matches) ==
    Sha256(build_prompt(course_description, course_title, section,
                        keyword_matches))

\* What the model call gives: an exception or an empty response, a text
\* that is no JSON, or a JSON payload whose entre_score is a number or not.
Responses == {"raise", "not json", "0", "high"}

Score(n) == [numeric |-> TRUE, n |-> n]
NoNumber == [numeric |-> FALSE, n |-> 0]

PayloadScore(response) ==
    IF response = "0" THEN Score(0) ELSE NoNumber

\* min(100, int(score) + bonus)
Bonus(score, bonus) == Score(Min2(100, score.n + bonus))

\* The cache is never hit.
CacheNeverHit(cache_, cache_key) == FALSE

\* cache is not None and cache_key in cache
CacheHit(cache_, cache_key) == cache_key \in DOMAIN cache_

\* classify_course after a miss, given the response of the model: what it
\* returns, and whether it raised.
ClassifyMiss(course, response) ==
    LET keyword_matches == extract_title_keywords(course.course_name)
        score0 == PayloadScore(response)
        needs_int == keyword_matches # <<>> \/ course.section = "MTE"
        score1 == IF keyword_matches # <<>> THEN Bonus(score0, 10) ELSE score0
        score2 == IF course.section = "MTE" THEN Bonus(score1, 5) ELSE score1
    IN  IF response \in {"raise", "not json"}
        THEN [raised |-> TRUE, result |-> PyNone]
        ELSE IF needs_int /\ ~score0.numeric
        THEN [raised |-> TRUE, result |-> PyNone]
        ELSE [raised |-> FALSE, result |-> PyDict([entre_score |-> score2])]

CourseKey(course) ==
    _make_cache_key(course.description, course.course_name, course.section,
                    extract_title_keywords(course.course_name))

InitClassify ==
    /\ c_pc = "load"
    /\ \E n \in 1..MaxCourseList :
       \E titles \in [1..n -> Titles], sections \in [1..n -> Sections] :
          c_courses = [i \in 1..n |->
                          [description |-> "d", course_name |-> titles[i],
                           section |-> sections[i]]]
    /\ cache_kind = "classification"
    /\ cache_file \in
          {<<>>, <<BrokenLine>>,
           << JsonLine(CourseKey([description |-> "d", course_name |-> "Algebra",
                                   section |-> "MTE"]),
                       PyDict([entre_score |-> Score(50)])) >>}
    /\ appended = <<>>
    /\ cache_lock = ""
    /\ appenders = <<>>
    /\ cache = <<>>
    /\ c_idx = 0
    /\ c_pass = 1
    /\ ask_calls = <<>>
    /\ c_results = <<>>
    /\ IdleA
    /\ IdleU
    /\ IdleB
    /\ IdleE
    /\ IdleI
    /\ IdleO
    /\ IdleS

\* main: cache = _load_cache(COURSEBOOK_CACHE), before the loop.
ClassifyLoad ==
    /\ c_pc = "load"
    /\ cache' = _load_cache(cache_kind, cache_file)
    /\ c_idx' = 1
    /\ c_pc' = "loop"
    /\ UNCHANGED <<c_courses, c_pass, ask_calls, c_results, varsL,
                   varsA, varsU, varsB, varsE, varsI, varsO, varsS>>

\* One iteration of main's loop: classify_course(course, cache, cache_path),
\* an exception caught and the course skipped.
ClassifyCourse ==
    /\ c_pc = "loop"
    /\ c_idx <= Len(c_courses)
    /\ LET course == c_courses[c_idx]
           cache_key == CourseKey(course)
       IN  IF CacheHit(cache, cache_key)
           THEN /\ c_results' = Append(c_results,
                       [pass |-> c_pass, idx |-> c_idx, raised |-> FALSE,
                        result |-> cache[cache_key]])
                /\ UNCHANGED <<cache, ask_calls, cache_file, appended, varsI,
                               varsO, varsS>>
           ELSE \E response \in Responses :
                   LET out == ClassifyMiss(course, response) IN
                   /\ ask_calls' = Append(ask_calls,
                          [pass |-> c_pass, idx |-> c_idx, response |-> response])
                   /\ c_results' = Append(c_results,
                          [pass |-> c_pass, idx |-> c_idx, raised |-> out.raised,
                           result |-> out.result])
                   /\ IF out.raised
                      THEN UNCHANGED <<cache, cache_file, appended, varsI,
                                     varsO, varsS>>
                      ELSE /\ cache' = DictPut(cache, cache_key, out.result)
                           /\ cache_file' =
                                 Append(cache_file, JsonLine(cache_key, out.result))
                           /\ appended' =
                                 Append(appended, [k |-> cache_key, v |-> out.result,
                                                   by |-> "main"])
    /\ c_idx' = c_idx + 1
    /\ UNCHANGED <<c_pc, c_courses, c_pass, cache_kind, cache_lock, appenders,
                   varsA, varsU, varsB, varsE, varsI, varsO, varsS>>

\* The loop is over.  After the first pass a second pass starts over the
\* same courses, with the dict in memory or as a new run that loads the
\* file; after the second the model stops.
ClassifyEndPass ==
    /\ c_pc = "loop"
    /\ c_idx > Len(c_courses)
    /\ IF c_pass = 1
       THEN /\ c_pass' = 2
            /\ c_idx' = 1
            /\ c_pc' = c_pc
            /\ cache' \in {cache, _load_cache(cache_kind, cache_file)}
       ELSE /\ c_pc' = "done"
            /\ UNCHANGED <<c_pass, c_idx, cache, varsI, varsO, varsS>>
    /\ UNCHANGED <<c_courses, ask_calls, c_results, varsL,
                   varsA, varsU, varsB, varsE, varsI, varsO, varsS>>

NextClassify == ClassifyLoad \/ ClassifyCourse \/ ClassifyEndPass

SpecClassify == InitClassify /\ [][NextClassify]_vars

Last(seq) == seq[Len(seq)]

\* One call of classify_course: on a hit the cached result is returned, the
\* model is not called and neither the dict nor the file changes; on a miss
\* the model is called once, and the dict and the file change only when the
\* call and the JSON parsing succeeded, and then by the returned result
\* under the course's key.
CallRespectsCache ==
    Len(c_results') = Len(c_results) + 1 =>
        LET cache_key == CourseKey(c_courses[c_idx])
            returned == Last(c_results')
        IN  IF cache_key \in DOMAIN cache
            THEN /\ ~returned.raised
                 /\ returned.result = cache[cache_key]
                 /\ ask_calls' = ask_calls
                 /\ cache' = cache
                 /\ cache_file' = cache_file
            ELSE /\ Len(ask_calls') = Len(ask_calls) + 1
                 /\ (cache' # cache \/ cache_file' # cache_file) =>
                       /\ Last(ask_calls').response \notin {"raise", "not json"}
                       /\ ~returned.raised
                       /\ cache' = DictPut(cache, cache_key, returned.result)
                       /\ cache_file' =
                             Append(cache_file, JsonLine(cache_key, returned.result))
                 /\ ~returned.raised => cache' # cache /\ cache_file' # cache_file

\* The second pass calls the model for no course that was classified in
\* the first pass, and returns the result of the first pass for it.
SecondPassFromCache ==
    \A r1, r2 \in SeqToSet(c_results) :
       (r1.pass = 1 /\ r2.pass = 2 /\ r1.idx = r2.idx /\ ~r1.raised) =>
          /\ ~r2.raised
          /\ r2.result = r1.result
          /\ \A c \in SeqToSet(ask_calls) : ~(c.pass = 2 /\ c.idx = r2.idx)

\* C20: every call of classify_course respects the cache, and a second pass
\* over the same courses with the same cache makes no model call for a
\* course classified in the first pass and returns the same result (the
\* title and section bonuses are in the cached result and are not added
\* again).
C20_CacheHitSkipsModel ==
    [][CallRespectsCache]_vars /\ []SecondPassFromCache

\* Both passes done over a course with a title keyword in section MTE that
\* was a miss answered with score 0 in the first pass: the result with both
\* bonuses (15) is returned in both passes, and the model was called once.
C20_Witness ==
    /\ c_pc = "done"
    /\ c_courses[1].course_name = "Venture Lab"
    /\ c_courses[1].section = "MTE"
    /\ Len(ask_calls) = 1
    /\ ask_calls[1].response = "0"
    /\ \E r1, r2 \in SeqToSet(c_results) :
          /\ r1.pass = 1 /\ r2.pass = 2 /\ r1.idx = 1 /\ r2.idx = 1
          /\ r1.result = PyDict([entre_score |-> Score(15)])
          /\ r2.result = r1.result
    /\ cache # _load_cache(cache_kind, <<>>)
    /\ cache = _load_cache(cache_kind, cache_file)

(***************************************************************************)
(* C21: for every integer topk_hits, the evidence list of a result has at  *)
(* most max(topk_hits, 0) entries; for topk_hits <= 0 it is empty.         *)
(***************************************************************************)
C21_EvidenceAtMostTopk ==
    (ScoreReturned /\ u_ret.ok) =>
        Len(u_ret.evidence) <= Max2(u_args.topk_hits, 0)

(***************************************************************************)
(* The Supabase import: supabase/import_from_csv.py.                       *)
(*                                                                         *)
(* A row is a record; NoValue is Python's None (SQL NULL), Some(x) a       *)
(* value that is present.  The database is a function from table names to *)
(* sets of rows.  The schema (init_postgres.sql) is not part of the        *)
(* sources: its unique constraints are taken to be the on_conflict         *)
(* columns the script names, and the column unique_code of                 *)
(* coursebook_courses to hold the course key.                              *)
(***************************************************************************)
NoValue == <<>>

Some(x) == <<x>>

Tables ==
    {"coursebook_courses", "people_profiles", "course_people_profiles",
     "coursebook_programs", "coursebook_studyplans", "compass_entries"}

ChildTables ==
    {"course_people_profiles", "coursebook_programs", "coursebook_studyplans"}

\* The tables whose rows the script reads an "id" from (a serial column).
SerialTables == {"coursebook_courses", "people_profiles"}

\* The columns the database fills in on insert.
GeneratedColumns(table, row) ==
    IF table = "coursebook_courses"
    THEN [unique_code |-> row.course_key]
    ELSE <<>>

\* The value of the on_conflict columns in a row, before or after insert.
ConflictKey(table, on_conflict, row) ==
    LET full == GeneratedColumns(table, row) @@ row
    IN  [n \in 1..Len(on_conflict) |-> full[on_conflict[n]]]

RECURSIVE MaxId(_)
MaxId(table_rows) ==
    IF table_rows = {} THEN 0
    ELSE LET r == CHOOSE x \in table_rows : TRUE
         IN  Max2(r.id, MaxId(table_rows \ {r}))

\* INSERT ... ON CONFLICT (on_conflict) DO UPDATE of one row
\* (Prefer: resolution=merge-duplicates): the columns of the payload
\* replace those of the row in conflict, the others are kept.
UpsertRow(table, table_rows, on_conflict, row) ==
    LET key == ConflictKey(table, on_conflict, row)
        hit == {e \in table_rows : ConflictKey(table, on_conflict, e) = key}
    IN  IF hit # {}
        THEN (table_rows \ hit) \cup
             {[c \in DOMAIN e |-> IF c \in DOMAIN row THEN row[c] ELSE e[c]] :
                 e \in hit}
        ELSE table_rows \cup
             {IF table \in SerialTables
              THEN [id |-> MaxId(table_rows) + 1]
                       @@ GeneratedColumns(table, row) @@ row
              ELSE GeneratedColumns(table, row) @@ row}

RECURSIVE UpsertRows(_, _, _, _)
UpsertRows(table, table_rows, on_conflict, payload) ==
    IF payload = <<>> THEN table_rows
    ELSE UpsertRows(table,
                    UpsertRow(table, table_rows, on_conflict, Head(payload)),
                    on_conflict, Tail(payload))

\* One statement cannot touch the same row twice: the server answers a
\* payload that repeats a conflict key with an error.
RepeatsKey(table, on_conflict, payload) ==
    \E i, j \in 1..Len(payload) :
        /\ i < j
        /\ ConflictKey(table, on_conflict, payload[i])
              = ConflictKey(table, on_conflict, payload[j])

\* The rows a filter selects: column -> the set of values it admits.
Matches(row, filters) ==
    \A c \in DOMAIN filters : row[c] \in filters[c]

\* SupabaseClient.upsert / delete_where as requests.
UpsertRequest(table, chunk, on_conflict) ==
    [method |-> "POST", table |-> table, rows |-> chunk,
     on_conflict |-> on_conflict, filters |-> <<>>]

DeleteRequest(table, filters) ==
    [method |-> "DELETE", table |-> table, rows |-> <<>>,
     on_conflict |-> <<>>, filters |-> filters]

\* What the server does with one request: the new tables, or an error
\* (SupabaseError in _handle), which leaves the tables as they were.
Serve(tables, req) ==
    IF req.method = "POST"
    THEN IF RepeatsKey(req.table, req.on_conflict, req.rows)
         THEN [ok |-> FALSE, tables |-> tables]
         ELSE [ok |-> TRUE,
               tables |-> [tables EXCEPT ![req.table] =
                              UpsertRows(req.table, @, req.on_conflict,
                                         req.rows)]]
    ELSE [ok |-> TRUE,
          tables |-> [tables EXCEPT ![req.table] =
                         {r \in @ : ~Matches(r, req.filters)}]]

\* The requests of one function sent in order; the first error is raised
\* and ends the run.
RECURSIVE Send(_, _, _)
Send(tables, reqs, sent) ==
    IF reqs = <<>> THEN [ok |-> TRUE, tables |-> tables, sent |-> sent]
    ELSE LET r == Serve(tables, Head(reqs))
         IN  IF r.ok THEN Send(r.tables, Tail(reqs), Append(sent, Head(reqs)))
             ELSE [ok |-> FALSE, tables |-> r.tables,
                   sent |-> Append(sent, Head(reqs))]

\* chunked(sequence, size)
RECURSIVE chunked(_, _)
chunked(sequence, size) ==
    IF sequence = <<>> THEN <<>>
    ELSE <<SubSeq(sequence, 1, Min2(size, Len(sequence)))>>
         \o chunked(SubSeq(sequence, Min2(size, Len(sequence)) + 1,
                           Len(sequence)), size)

\* The chunk sizes of the script (500 rows per upsert, 150 values per
\* filter), scaled to the row counts of the model.
UpsertChunk == 2

FilterChunk == 1

\* top_n, the number of compass slots (30 in main), scaled likewise.
TopN == 1

\* list(dict.fromkeys(values)): the first occurrence of every value.
RECURSIVE DictFromKeys(_)
DictFromKeys(values) ==
    IF values = <<>> THEN <<>>
    ELSE LET init == DictFromKeys(SubSeq(values, 1, Len(values) - 1))
             v == values[Len(values)]
         IN  IF \E i \in 1..Len(init) : init[i] = v THEN init
             ELSE Append(init, v)

\* map_course_ids: the ids the table holds for the course keys of the
\* payload (fallback_rows are rows of the same table and add nothing).
map_course_ids(tables, course_keys) ==
    LET found == {k \in course_keys :
                     \E r \in tables["coursebook_courses"] : r.course_key = k}
    IN  [k \in found |->
            MaxId({r \in tables["coursebook_courses"] : r.course_key = k})]

\* map_people_ids: by_url and by_name; of several rows with the same url
\* or name the one returned last (the greatest id) stays in the dict.
map_people_ids(tables, names, urls) ==
    LET people == tables["people_profiles"]
        url_values == {u \in urls : u # ""}
        name_values == {n \in names : n # ""}
        with_url(u) == {r \in people : r.card_url = Some(u)}
        with_name(n) == {r \in people : r.name = n}
    IN  [by_url |-> [u \in {v \in url_values : with_url(v) # {}} |->
                        MaxId(with_url(u))],
         by_name |-> [n \in {v \in name_values : with_name(v) # {}} |->
                        MaxId(with_name(n))]]

\* `value or ""` for an optional string.
OrEmpty(value) == IF value = NoValue THEN "" ELSE value[1]

\* delete_existing_children as requests: one DELETE per chunk of ids.
delete_nothing(table, course_ids) == <<>>

delete_existing_children(table, course_ids) ==
    IF course_ids = <<>> THEN <<>>
    ELSE LET chunks == chunked(DictFromKeys(course_ids), FilterChunk)
         IN  [n \in 1..Len(chunks) |->
                 DeleteRequest(table,
                     [course_id |-> {chunks[n][i] : i \in 1..Len(chunks[n])}])]

UpsertRequests(table, payload, on_conflict) ==
    LET chunks == chunked(payload, UpsertChunk)
    IN  [n \in 1..Len(chunks) |-> UpsertRequest(table, chunks[n], on_conflict)]

CourseIdsOf(payload) == [n \in 1..Len(payload) |-> payload[n].course_id]

\* upsert_people_profiles
upsert_people_profiles(profiles) ==
    UpsertRequests("people_profiles", profiles, <<"name", "card_url">>)

\* upsert_course_people_links: the payload, then the requests.
LinksPayload(tables, teacher_rows, id_map) ==
    LET urls == {OrEmpty(teacher_rows[i].teacher_url) :
                    i \in 1..Len(teacher_rows)}
        names == {teacher_rows[i].teacher_name : i \in 1..Len(teacher_rows)}
        maps == map_people_ids(tables, names, urls)
        person(row) ==
            LET url == OrEmpty(row.teacher_url)
                name == row.teacher_name
            IN  IF url # "" /\ url \in DOMAIN maps.by_url
                THEN maps.by_url[url]
                ELSE IF name # "" /\ name \in DOMAIN maps.by_name
                     THEN maps.by_name[name]
                     ELSE 0
        linked == SelectSeq(teacher_rows,
                      LAMBDA row : /\ row.course_key \in DOMAIN id_map
                                   /\ person(row) # 0)
    IN  [n \in 1..Len(linked) |->
            [course_id |-> id_map[linked[n].course_key],
             person_id |-> person(linked[n])]]

upsert_course_people_links(tables, teacher_rows, id_map) ==
    LET payload == LinksPayload(tables, teacher_rows, id_map)
    IN  IF teacher_rows = <<>> \/ payload = <<>> THEN <<>>
        ELSE delete_existing_children("course_people_profiles",
                                      CourseIdsOf(payload))
             \o UpsertRequests("course_people_profiles", payload,
                               <<"course_id", "person_id">>)

\* upsert_programs: unique_records, in insertion order; a later row of the
\* same key only fills in a missing workload.
ProgramKey(row) ==
    <<row.course_key, row.program_name, row.level, row.semester,
      row.exam_form, row.program_type>>

RECURSIVE UniquePrograms(_, _)
UniquePrograms(program_rows, id_map) ==
    IF program_rows = <<>> THEN <<>>
    ELSE LET init == UniquePrograms(
                        SubSeq(program_rows, 1, Len(program_rows) - 1), id_map)
             row == program_rows[Len(program_rows)]
         IN  IF row.course_key \notin DOMAIN id_map THEN init
             ELSE IF \E i \in 1..Len(init) : init[i].key = ProgramKey(row)
                  THEN [i \in 1..Len(init) |->
                           IF /\ init[i].key = ProgramKey(row)
                              /\ init[i].record.workload = NoValue
                              /\ row.workload # NoValue
                           THEN [init[i] EXCEPT !.record.workload = row.workload]
                           ELSE init[i]]
                  ELSE Append(init,
                         [key |-> ProgramKey(row),
                          record |->
                             [course_id |-> id_map[row.course_key],
                              program_name |-> row.program_name,
                              level |-> row.level,
                              semester |-> row.semester,
                              exam_form |-> row.exam_form,
                              program_type |-> row.program_type,
                              workload |-> row.workload]])

upsert_programs(program_rows, id_map) ==
    LET unique_records == UniquePrograms(program_rows, id_map)
        payload == [n \in 1..Len(unique_records) |-> unique_records[n].record]
    IN  IF payload = <<>> THEN <<>>
        ELSE delete_existing_children("coursebook_programs",
                                      CourseIdsOf(payload))
             \o UpsertRequests("coursebook_programs", payload,
                   <<"course_id", "program_name", "level", "semester",
                     "exam_form", "program_type">>)

\* upsert_studyplans
upsert_studyplans(studyplan_rows, id_map) ==
    LET mapped == SelectSeq(studyplan_rows,
                      LAMBDA row : row.course_key \in DOMAIN id_map)
        payload == [n \in 1..Len(mapped) |->
                       [course_id |-> id_map[mapped[n].course_key],
                        study_program |-> mapped[n].study_program,
                        study_faculty |-> mapped[n].study_faculty,
                        study_block |-> mapped[n].study_block]]
    IN  IF payload = <<>> THEN <<>>
        ELSE delete_existing_children("coursebook_studyplans",
                                      CourseIdsOf(payload))
             \o UpsertRequests("coursebook_studyplans", payload,
                   <<"course_id", "study_program", "study_faculty",
                     "study_block">>)

\* upsert_compass_entries_for_top_courses
CourseKeyOrder == <<"c1", "c2">>

\* The order of course keys as strings.
KeyRank(course_key) ==
    CHOOSE n \in 1..Len(CourseKeyOrder) : CourseKeyOrder[n] = course_key

\* int(value or 0)
IntOrZero(value) == IF value = NoValue THEN 0 ELSE value[1]

\* sort_key(a) >= sort_key(b), as tuples
SortKeyAtLeast(a, b) ==
    LET ka == <<IntOrZero(a.entre_score), IntOrZero(a.PD), IntOrZero(a.PB),
                KeyRank(a.course_key)>>
        kb == <<IntOrZero(b.entre_score), IntOrZero(b.PD), IntOrZero(b.PB),
                KeyRank(b.course_key)>>
    IN  \/ ka = kb
        \/ \E n \in 1..4 : /\ \A m \in 1..(n - 1) : ka[m] = kb[m]
                           /\ ka[n] > kb[n]

\* sorted(candidates, key=sort_key, reverse=True)
RECURSIVE InsertBySortKey(_, _)
InsertBySortKey(sorted, item) ==
    IF sorted = <<>> THEN <<item>>
    ELSE IF SortKeyAtLeast(Head(sorted), item)
         THEN <<Head(sorted)>> \o InsertBySortKey(Tail(sorted), item)
         ELSE <<item>> \o sorted

RECURSIVE SortedCourses(_)
SortedCourses(candidates) ==
    IF candidates = <<>> THEN <<>>
    ELSE InsertBySortKey(
             SortedCourses(SubSeq(candidates, 1, Len(candidates) - 1)),
             candidates[Len(candidates)])

TopCourses(course_rows, top_n) ==
    LET candidates == SelectSeq(course_rows,
                          LAMBDA row : /\ row.entre_score # NoValue
                                       /\ row.course_name # ""
                                       /\ row.course_key # "")
    IN  PyPrefix(SortedCourses(candidates), top_n)

ClearNothing == <<>>

\* The request that clears the previous course entries.
ClearCourseEntries ==
    <<DeleteRequest("compass_entries", [category |-> {"course"}])>>

upsert_compass_entries_for_top_courses(course_rows, top_n) ==
    LET top_courses == TopCourses(course_rows, top_n)
        payload == [n \in 1..Len(top_courses) |->
                       [slot_index |-> n - 1,
                        label |-> top_courses[n].course_key,
                        url |-> top_courses[n].course_url,
                        category |-> "course",
                        description |-> top_courses[n].course_name]]
    IN  IF course_rows = <<>> \/ top_n <= 0 \/ top_courses = <<>> THEN <<>>
        ELSE ClearCourseEntries
             \o <<UpsertRequest("compass_entries", payload, <<"slot_index">>)>>

(***************************************************************************)
(* The inputs of the import: what the read_* functions return for the CSV  *)
(* files (rows without a key or name are dropped there, strings trimmed),  *)
(* and the tables before the first run.                                    *)
(***************************************************************************)
CourseRowOf(key, score, pd) ==
    [course_key |-> key, course_name |-> "name of " \o key,
     course_url |-> "url of " \o key, entre_score |-> score,
     PD |-> pd, PB |-> NoValue]

CourseLists ==
    { <<>>,
      <<CourseRowOf("c1", Some(2), NoValue)>>,
      <<CourseRowOf("c1", Some(1), NoValue), CourseRowOf("c2", Some(1), Some(3))>>,
      <<CourseRowOf("c1", NoValue, NoValue), CourseRowOf("c2", NoValue, NoValue)>>,
      <<CourseRowOf("c2", Some(1), NoValue), CourseRowOf("c2", Some(2), NoValue)>>,
      <<CourseRowOf("c2", Some(1), NoValue), CourseRowOf("c1", Some(0), NoValue),
        CourseRowOf("c2", Some(2), NoValue)>> }

TeacherRowOf(key, name, url) ==
    [course_key |-> key, teacher_name |-> name, teacher_url |-> url]

TeacherLists ==
    { <<>>,
      <<TeacherRowOf("c1", "A", Some("u1"))>>,
      <<TeacherRowOf("c1", "A", NoValue), TeacherRowOf("c2", "B", NoValue)>>,
      <<TeacherRowOf("c1", "A", Some("u1")), TeacherRowOf("c1", "B", Some("u1"))>>,
      <<TeacherRowOf("c2", "Z", NoValue)>> }

ProgramRowOf(key, program_name, workload) ==
    [course_key |-> key, program_name |-> program_name, level |-> "",
     semester |-> "BA1", exam_form |-> "written", program_type |-> "optional",
     workload |-> workload]

ProgramLists ==
    { <<>>,
      <<ProgramRowOf("c1", "p1", NoValue)>>,
      <<ProgramRowOf("c1", "p1", NoValue), ProgramRowOf("c1", "p1", Some(5))>>,
      <<ProgramRowOf("c1", "p1", Some(5)), ProgramRowOf("c2", "p2", NoValue)>>,
      <<ProgramRowOf("c1", "p1", Some(5)), ProgramRowOf("c1", "p2", NoValue),
        ProgramRowOf("c1", "p3", NoValue)>> }

StudyplanRowOf(key, study_program) ==
    [course_key |-> key, study_program |-> study_program,
     study_faculty |-> "f", study_block |-> "b"]

StudyplanLists ==
    { <<>>,
      <<StudyplanRowOf("c1", "s1")>>,
      <<StudyplanRowOf("c1", "s1"), StudyplanRowOf("c1", "s1")>>,
      <<StudyplanRowOf("c1", "s1"), StudyplanRowOf("c2", "s2")>>,
      <<StudyplanRowOf("c1", "s1"), StudyplanRowOf("c1", "s2"),
        StudyplanRowOf("c1", "s1")>> }

ProfileRowOf(name, card_url, title) ==
    [name |-> name, card_url |-> card_url, title |-> title]

ProfileLists ==
    { <<>>,
      <<ProfileRowOf("A", Some("u1"), Some("Prof."))>>,
      <<ProfileRowOf("A", Some("u1"), NoValue), ProfileRowOf("B", NoValue, NoValue)>>,
      <<ProfileRowOf("A", Some("u2"), NoValue), ProfileRowOf("B", Some("u1"), NoValue)>> }

EmptyTables == [t \in Tables |-> {}]

\* Tables an earlier import of other files has left.
EarlierTables ==
    [t \in Tables |->
       CASE t = "coursebook_courses" ->
              {[id |-> 1, unique_code |-> "c1"] @@ CourseRowOf("c1", Some(9), NoValue),
               [id |-> 2, unique_code |-> "c2"] @@ CourseRowOf("c2", NoValue, NoValue)}
         [] t = "people_profiles" ->
              {[id |-> 1] @@ ProfileRowOf("A", Some("u1"), Some("Dr.")),
               [id |-> 2] @@ ProfileRowOf("A", Some("u9"), NoValue)}
         [] t = "course_people_profiles" ->
              {[course_id |-> 1, person_id |-> 2],
               [course_id |-> 2, person_id |-> 1]}
         [] t = "coursebook_programs" ->
              {[course_id |-> 1, program_name |-> "p9", level |-> "",
                semester |-> "BA1", exam_form |-> "written",
                program_type |-> "optional", workload |-> NoValue],
               [course_id |-> 2, program_name |-> "p9", level |-> "",
                semester |-> "BA1", exam_form |-> "written",
                program_type |-> "optional", workload |-> Some(3)]}
         [] t = "coursebook_studyplans" ->
              {[course_id |-> 1, study_program |-> "s9",
                study_faculty |-> "f", study_block |-> "b"],
               [course_id |-> 2, study_program |-> "s9",
                study_faculty |-> "f", study_block |-> "b"]}
         [] OTHER ->
              {[slot_index |-> 0, label |-> "c9", url |-> "url of c9",
                category |-> "course", description |-> "name of c9"],
               [slot_index |-> 1, label |-> "c8", url |-> "url of c8",
                category |-> "course", description |-> "name of c8"],
               [slot_index |-> 2, label |-> "lab", url |-> "url of lab",
                category |-> "lab", description |-> "a lab"]}]

\* The same with only one of the courses known.
PartialTables ==
    [EarlierTables EXCEPT
        !["coursebook_courses"] = {r \in @ : r.course_key = "c2"},
        !["people_profiles"] = {},
        !["course_people_profiles"] = {},
        !["compass_entries"] =
            {[slot_index |-> 0, label |-> "lab", url |-> "url of lab",
              category |-> "lab", description |-> "a lab"]}]

(***************************************************************************)
(* main of the import, run twice over the same files: one action per call  *)
(* of main, each sending its requests in order.                            *)
(***************************************************************************)
OtherThanImport == <<varsA, varsU, varsB, varsE, varsL, varsC>>

InitImport ==
    /\ i_pc = "courses"
    /\ i_run = 1
    /\ \E courses \in CourseLists, teachers \in TeacherLists,
          programs \in ProgramLists, studyplans \in StudyplanLists,
          people_profiles \in ProfileLists :
          i_inputs = [courses |-> courses, teachers |-> teachers,
                      programs |-> programs, studyplans |-> studyplans,
                      people_profiles |-> people_profiles]
    /\ db \in {EmptyTables, EarlierTables, PartialTables}
    /\ db_first = <<>>
    /\ requests = <<>>
    /\ course_id_map = <<>>
    /\ IdleA
    /\ IdleU
    /\ IdleB
    /\ IdleE
    /\ IdleL
    /\ IdleC
    /\ IdleO
    /\ IdleS

\* One call of main: the requests are sent; an error response raises
\* SupabaseError, which main does not catch.
ImportStep(pc, reqs, next_pc) ==
    /\ i_pc = pc
    /\ LET r == Send(db, reqs, requests)
       IN  /\ db' = r.tables
           /\ requests' = r.sent
           /\ i_pc' = IF r.ok THEN next_pc ELSE "failed"
    /\ UNCHANGED <<i_run, i_inputs, db_first, OtherThanImport, varsO, varsS>>

\* client.upsert("coursebook_courses", ...) per chunk, then map_course_ids
ImportCourses ==
    /\ ImportStep("courses",
                  UpsertRequests("coursebook_courses", i_inputs.courses,
                                 <<"unique_code">>),
                  "people")
    /\ course_id_map' =
          IF i_pc' = "failed" THEN course_id_map
          ELSE map_course_ids(db',
                   {i_inputs.courses[n].course_key :
                       n \in 1..Len(i_inputs.courses)})

ImportPeople ==
    /\ ImportStep("people", upsert_people_profiles(i_inputs.people_profiles),
                  "links")
    /\ UNCHANGED course_id_map

ImportLinks ==
    /\ ImportStep("links",
                  upsert_course_people_links(db, i_inputs.teachers,
                                             course_id_map),
                  "programs")
    /\ UNCHANGED course_id_map

ImportPrograms ==
    /\ ImportStep("programs",
                  upsert_programs(i_inputs.programs, course_id_map),
                  "studyplans")
    /\ UNCHANGED course_id_map

ImportStudyplans ==
    /\ ImportStep("studyplans",
                  upsert_studyplans(i_inputs.studyplans, course_id_map),
                  "compass")
    /\ UNCHANGED course_id_map

ImportCompass ==
    /\ ImportStep("compass",
                  upsert_compass_entries_for_top_courses(i_inputs.courses, TopN),
                  "done")
    /\ UNCHANGED course_id_map

\* The script is started again on the same files.
ImportAgain ==
    /\ i_pc \in {"done", "failed"}
    /\ i_run = 1
    /\ i_run' = 2
    /\ i_pc' = "courses"
    /\ db_first' = db
    /\ requests' = <<>>
    /\ course_id_map' = <<>>
    /\ UNCHANGED <<i_inputs, db, OtherThanImport, varsO, varsS>>

NextImport ==
    \/ ImportCourses
    \/ ImportPeople
    \/ ImportLinks
    \/ ImportPrograms
    \/ ImportStudyplans
    \/ ImportCompass
    \/ ImportAgain

SpecImport == InitImport /\ [][NextImport]_vars

\* The rows the run has sent to a table so far, and their course ids.
SentRows(reqs, table) ==
    UNION {{reqs[n].rows[i] : i \in 1..Len(reqs[n].rows)} :
              n \in {m \in 1..Len(reqs) : /\ reqs[m].method = "POST"
                                          /\ reqs[m].table = table}}

SentCourseIds(reqs, table) == {r.course_id : r \in SentRows(reqs, table)}

\* In the requests of a run, every DELETE of a child table comes before
\* every POST to it, and the DELETEs before a POST name every course id
\* the run sends to the table.
ChildrenDeletedFirst ==
    \A t \in ChildTables :
    \A j \in 1..Len(requests) :
        (requests[j].method = "POST" /\ requests[j].table = t) =>
            /\ \A i \in (j + 1)..Len(requests) :
                  ~(requests[i].method = "DELETE" /\ requests[i].table = t)
            /\ \A c \in SentCourseIds(requests, t) :
                  \E i \in 1..(j - 1) :
                      /\ requests[i].method = "DELETE"
                      /\ requests[i].table = t
                      /\ c \in requests[i].filters.course_id

\* The course entries of the compass are cleared before the new ones are
\* written.
CompassClearedFirst ==
    \A j \in 1..Len(requests) :
        (requests[j].method = "POST" /\ requests[j].table = "compass_entries") =>
            \E i \in 1..(j - 1) : requests[i] = ClearCourseEntries[1]

\* A step changes no child row of a course the run sends nothing for.
AbsentCoursesUntouched ==
    \A t \in ChildTables :
        LET touched == SentCourseIds(requests', t) \cup SentCourseIds(requests, t)
        IN  {r \in db[t] : r.course_id \notin touched}
               = {r \in db'[t] : r.course_id \notin touched}

\* After a run without error the child rows of the courses in the payload
\* are the payload, and the course entries of the compass the new entries.
PayloadReplacesChildren ==
    i_pc = "done" =>
        /\ \A t \in ChildTables :
              {r \in db[t] : r.course_id \in SentCourseIds(requests, t)}
                 = SentRows(requests, t)
        /\ SentRows(requests, "compass_entries") # {} =>
              {r \in db["compass_entries"] : r.category = "course"}
                 = SentRows(requests, "compass_entries")

\* Courses are upserted on their key: one row per course key, and a run
\* without error leaves each course of the files with its last values.
CoursesUpserted ==
    /\ \A r1, r2 \in db["coursebook_courses"] :
          r1.course_key = r2.course_key => r1 = r2
    /\ i_pc = "done" =>
          \A n \in 1..Len(i_inputs.courses) :
              \E r \in db["coursebook_courses"] :
                  /\ r.course_key = i_inputs.courses[n].course_key
                  /\ (\A m \in (n + 1)..Len(i_inputs.courses) :
                         i_inputs.courses[m].course_key # r.course_key)
                        => \A c \in DOMAIN i_inputs.courses[n] :
                              r[c] = i_inputs.courses[n][c]

SecondRunChangesNothing ==
    (i_run = 2 /\ i_pc \in {"done", "failed"}) => db = db_first

SCHEDULE_GRID_START_MIN == 480

SCHEDULE_GRID_END_MIN == 1200

SCHEDULE_GRID_STEP_MIN == 60

\* list(range(SCHEDULE_GRID_START_MIN, SCHEDULE_GRID_END_MIN, STEP))
SCHEDULE_SLOT_STARTS ==
    [n \in 1..((SCHEDULE_GRID_END_MIN - SCHEDULE_GRID_START_MIN
                  + SCHEDULE_GRID_STEP_MIN - 1) \div SCHEDULE_GRID_STEP_MIN) |->
        SCHEDULE_GRID_START_MIN + (n - 1) * SCHEDULE_GRID_STEP_MIN]

SCHEDULE_MATRIX_ROWS == Len(SCHEDULE_SLOT_STARTS)

SCHEDULE_MATRIX_COLS == 7

\* DAY_INDEX_LOOKUP.get(day_token), -1 for None
DAY_INDEX_LOOKUP(day_token) ==
    CASE day_token \in {<<"m", "o", "n", "d", "a", "y">>,
                          <<"m", "o", "n">>,
                          <<"l", "u", "n", "d", "i">>,
                          <<"l", "u", "n">>} -> 0
      [] day_token \in {<<"t", "u", "e", "s", "d", "a", "y">>,
                          <<"t", "u", "e">>,
                          <<"m", "a", "r", "d", "i">>,
                          <<"m", "a", "r">>} -> 1
      [] day_token \in {<<"w", "e", "d", "n", "e", "s", "d", "a", "y">>,
                          <<"w", "e", "d">>,
                          <<"m", "e", "r", "c", "r", "e", "d", "i">>,
                          <<"m", "e", "r">>} -> 2
      [] day_token \in {<<"t", "h", "u", "r", "s", "d", "a", "y">>,
                          <<"t", "h", "u">>,
                          <<"t", "h", "u", "r", "s">>,
                          <<"j", "e", "u", "d", "i">>,
                          <<"j", "e", "u">>} -> 3
      [] day_token \in {<<"f", "r", "i", "d", "a", "y">>,
                          <<"f", "r", "i">>,
                          <<"v", "e", "n", "d", "r", "e", "d", "i">>,
                          <<"v", "e", "n">>} -> 4
      [] day_token \in {<<"s", "a", "t", "u", "r", "d", "a", "y">>,
                          <<"s", "a", "t">>,
                          <<"s", "a", "m", "e", "d", "i">>,
                          <<"s", "a", "m">>} -> 5
      [] day_token \in {<<"s", "u", "n", "d", "a", "y">>,
                          <<"s", "u", "n">>,
                          <<"d", "i", "m", "a", "n", "c", "h", "e">>,
                          <<"d", "i", "m">>} -> 6
      [] OTHER -> -1

Digits == <<"0", "1", "2", "3", "4", "5", "6", "7", "8", "9">>

IsDigit(c) == \E n \in 1..10 : Digits[n] = c

DigitValue(c) == (CHOOSE n \in 1..10 : Digits[n] = c) - 1

\* int(digits) for a string of digits
RECURSIVE IntOf(_)
IntOf(digits) ==
    IF digits = <<>> THEN 0
    ELSE 10 * IntOf(SubSeq(digits, 1, Len(digits) - 1))
         + DigitValue(digits[Len(digits)])

\* token.lower().replace("h", ":").replace(".", ":"), whitespace removed
CleanTimeToken(token) ==
    LET replaced == [i \in 1..Len(token) |->
                        IF token[i] \in {"h", "H", "."} THEN ":" ELSE token[i]]
    IN  SelectSeq(replaced, LAMBDA c : c # " ")

\* The longest prefix of digits, at most n long.
RECURSIVE DigitPrefix(_, _)
DigitPrefix(s, n) ==
    IF n = 0 \/ s = <<>> \/ ~IsDigit(Head(s)) THEN <<>>
    ELSE <<Head(s)>> \o DigitPrefix(Tail(s), n - 1)

\* _TIME_TOKEN_RE on the cleaned token: one or two digits, then optionally
\* a colon (which may be missing) and up to two digits, and nothing else.
\* -1 stands for None.
_parse_time_token_hours_only(token) ==
    LET cleaned == CleanTimeToken(token)
        hh == DigitPrefix(cleaned, 2)
    IN  IF hh = <<>> \/ IntOf(hh) > 24 THEN -1 ELSE IntOf(hh) * 60

_parse_time_token(token) ==
    LET cleaned == CleanTimeToken(token)
        hh == DigitPrefix(cleaned, 2)
        after == SubSeq(cleaned, Len(hh) + 1, Len(cleaned))
        tail == IF after # <<>> /\ Head(after) = ":" THEN Tail(after) ELSE after
        mm == DigitPrefix(tail, 2)
        hours == IntOf(hh)
        minutes == IF mm = <<>> THEN 0 ELSE IntOf(mm)
    IN  IF hh = <<>> \/ Len(mm) # Len(tail) THEN -1
        ELSE IF hours < 0 \/ hours > 24 \/ minutes < 0 \/ minutes >= 60 THEN -1
        ELSE hours * 60 + minutes

_empty_schedule_matrix ==
    [r \in 1..SCHEDULE_MATRIX_ROWS |-> [c \in 1..SCHEDULE_MATRIX_COLS |-> 0]]

\* The slot loop of one line: rows are visited in order; a slot that ends
\* at or before the start is skipped, the first slot that starts at or
\* after the end stops the loop.
RECURSIVE MarkSlots(_, _, _, _, _)
MarkSlots(matrix, row_idx, day_index, start_minutes, end_minutes) ==
    IF row_idx > Len(SCHEDULE_SLOT_STARTS) THEN matrix
    ELSE LET slot_start == SCHEDULE_SLOT_STARTS[row_idx]
             slot_end == slot_start + SCHEDULE_GRID_STEP_MIN
         IN  IF slot_end <= start_minutes
             THEN MarkSlots(matrix, row_idx + 1, day_index,
                            start_minutes, end_minutes)
             ELSE IF slot_start >= end_minutes THEN matrix
             ELSE MarkSlots([matrix EXCEPT ![row_idx][day_index + 1] = 1],
                            row_idx + 1, day_index, start_minutes, end_minutes)

\* The body of the line loop, for a day token already normalized.
ScheduleLine(matrix, line, day_token) ==
    IF line.kind # "range" THEN matrix
    ELSE LET day_index == DAY_INDEX_LOOKUP(day_token)
             start_minutes == _parse_time_token(line.start)
             end_minutes == _parse_time_token(line.end)
         IN  IF day_index = -1 THEN matrix
             ELSE IF start_minutes = -1 \/ end_minutes = -1 THEN matrix
             ELSE IF end_minutes <= start_minutes THEN matrix
             ELSE MarkSlots(matrix, 1, day_index, start_minutes, end_minutes)

\* import_from_csv.build_schedule_matrix; the day token is
\* (match.group("day") or "").strip().lower().
RECURSIVE build_schedule_matrix_importer(_, _)
build_schedule_matrix_importer(matrix, schedule_text) ==
    IF schedule_text = <<>> THEN matrix
    ELSE build_schedule_matrix_importer(
             ScheduleLine(matrix, Head(schedule_text),
                          Lower(Strip(Head(schedule_text).day))),
             Tail(schedule_text))

\* fetch_coursebook_courses.build_schedule_matrix; the day token is
\* normalize_ws(match.group("day")).lower().
RECURSIVE build_schedule_matrix_scraper(_, _)
build_schedule_matrix_scraper(matrix, schedule_text) ==
    IF schedule_text = <<>> THEN matrix
    ELSE build_schedule_matrix_scraper(
             ScheduleLine(matrix, Head(schedule_text),
                          Lower(_normalize_whitespace(Head(schedule_text).day))),
             Tail(schedule_text))

(***************************************************************************)
(* One call of both copies on the same schedule text.                      *)
(***************************************************************************)
MaxScheduleLines == 2

\* The day group of a match holds letters only.
DayTokens == { <<"M", "o", "n">>, <<"D", "I", "M">>, <<"d", "a", "y">> }

StartTokens ==
    { <<"8">>, <<"9", "h", "1", "5">>, <<"1", "9", ":", "3", "0">>,
      <<"2", "5">>, <<"7", "H">> }

EndTokens ==
    { <<"9">>, <<"1", "0", "h", "5">>, <<"2", "4", ":", "0", "0">>,
      <<"9", ":", "7", "5">>, <<"8", "h">> }

ScheduleLines ==
    {[kind |-> "blank", day |-> <<>>, start |-> <<>>, end |-> <<>>],
     [kind |-> "nomatch", day |-> <<>>, start |-> <<>>, end |-> <<>>]}
    \cup {[kind |-> "range", day |-> <<"M", "o", "n">>, start |-> s, end |-> e] :
             s \in StartTokens, e \in EndTokens}
    \cup {[kind |-> "range", day |-> d, start |-> <<"8">>,
            end |-> <<"2", "4", ":", "0", "0">>] : d \in DayTokens}
    \cup {[kind |-> "range", day |-> <<"D", "I", "M">>,
            start |-> <<"8">>, end |-> <<"9", ":", "7", "5">>]}

InitSchedule ==
    /\ u_pc = "call"
    /\ u_fn = "build_schedule_matrix"
    /\ \E text \in SeqsUpTo(ScheduleLines, MaxScheduleLines) :
          u_args = [schedule_text |-> text]
    /\ u_ret = <<>>
    /\ IdleA
    /\ IdleB
    /\ IdleE
    /\ IdleL
    /\ IdleC
    /\ IdleI
    /\ IdleO
    /\ IdleS

ScheduleCall ==
    /\ u_pc = "call"
    /\ u_fn = "build_schedule_matrix"
    /\ u_ret' = [importer |-> build_schedule_matrix_importer(
                                  _empty_schedule_matrix, u_args.schedule_text),
                 scraper |-> build_schedule_matrix_scraper(
                                  _empty_schedule_matrix, u_args.schedule_text)]
    /\ u_pc' = "returned"
    /\ UNCHANGED <<u_fn, u_args, varsA, varsB, varsE, varsL, varsC, varsI,
                   varsO, varsS>>

NextSchedule == ScheduleCall

SpecSchedule == InitSchedule /\ [][NextSchedule]_vars

\* The minutes a time token of a matched line stands for, stated on its
\* shape: H, HH, H:MM, HhMM, Hh, ... ; -1 if hours > 24 or minutes > 59.
TokenMinutes(token) ==
    LET sep == {i \in 1..Len(token) : ~IsDigit(token[i])}
        cut == IF sep = {} THEN Len(token) + 1 ELSE CHOOSE i \in sep : TRUE
        h == IntOf(SubSeq(token, 1, cut - 1))
        m == IntOf(SubSeq(token, cut + 1, Len(token)))
    IN  IF h > 24 \/ m > 59 THEN -1 ELSE 60 * h + m

DayOf(day) ==
    CASE day = <<"M", "o", "n">> -> 0 [] day = <<"D", "I", "M">> -> 6
      [] OTHER -> -1

\* Some line for day d has valid times start < end that overlap the hour
\* slot r (both counted from 0).
SlotTaken(text, r, d) ==
    \E n \in 1..Len(text) :
        /\ text[n].kind = "range"
        /\ DayOf(text[n].day) = d
        /\ LET start == TokenMinutes(text[n].start)
               end == TokenMinutes(text[n].end)
           IN  /\ start # -1 /\ end # -1 /\ start < end
               /\ start < 540 + 60 * r
               /\ end > 480 + 60 * r

(***************************************************************************)
(* C23: build_schedule_matrix returns a 12 by 7 matrix of 0/1 values in    *)
(* which cell (r, d) is 1 exactly when some line for day d with valid      *)
(* times start < end overlaps the hour slot [480 + 60r, 540 + 60r); lines  *)
(* that do not parse, name an unknown day or have end <= start change      *)
(* nothing; the scraper's copy and the importer's copy return the same     *)
(* matrix.                                                                 *)
(***************************************************************************)
C23_ScheduleMatrix ==
    (u_fn = "build_schedule_matrix" /\ u_pc = "returned") =>
        /\ Len(u_ret.importer) = 12
        /\ \A r \in 0..11 :
              /\ Len(u_ret.importer[r + 1]) = 7
              /\ \A d \in 0..6 :
                    u_ret.importer[r + 1][d + 1] =
                       IF SlotTaken(u_args.schedule_text, r, d) THEN 1 ELSE 0
        /\ u_ret.scraper = u_ret.importer

\* Monday 9h15 - 10h5 and a line with an invalid end: the slots of 9:00 and
\* 10:00 of Monday are taken and nothing else.
C23_Witness ==
    /\ u_fn = "build_schedule_matrix"
    /\ u_pc = "returned"
    /\ Len(u_args.schedule_text) = 2
    /\ u_args.schedule_text[1] =
          [kind |-> "range", day |-> <<"M", "o", "n">>,
           start |-> <<"9", "h", "1", "5">>, end |-> <<"1", "0", "h", "5">>]
    /\ u_args.schedule_text[2] =
          [kind |-> "range", day |-> <<"D", "I", "M">>,
           start |-> <<"8">>, end |-> <<"9", ":", "7", "5">>]
    /\ u_ret.importer[1][1] = 0
    /\ u_ret.importer[2][1] = 1
    /\ u_ret.importer[3][1] = 1
    /\ u_ret.importer[4][1] = 0
    /\ \A r \in 1..12 : u_ret.importer[r][7] = 0

(***************************************************************************)
(* run_coursebook_classification.main and its output CSV.                  *)
(*                                                                         *)
(* The output file is [exists, lines]; a line is the header or the row of  *)
(* a course.  What classify_course returns or raises is an input here      *)
(* (its own behaviour is the subject of the classification run above).     *)
(***************************************************************************)
MaxInputCourses == 2

MaxRuns == 2

\* The values of --start-line tried, from below 1 to beyond the input.
StartLineArgs == 0..(MaxInputCourses + 1)

InputCourse(idx, description) ==
    [course_key |-> <<"course", idx>>, description |-> description]

InputCourseLists ==
    UNION {{[i \in 1..n |-> InputCourse(i, ds[i])] :
               ds \in [1..n -> {"", " ", "d"}]} : n \in 0..MaxInputCourses}

AbsentFile == [exists |-> FALSE, lines |-> <<>>]

HeaderLine == [kind |-> "header", course_key |-> <<>>, entre_score |-> ""]

\* writer.writerow for a blank description, and for a result
BlankRow(course_key) ==
    [kind |-> "row", course_key |-> course_key, entre_score |-> ""]

ResultRow(course_key, result) ==
    [kind |-> "row", course_key |-> course_key, entre_score |-> result]

\* (description or "").strip()
DescriptionIsBlank(description) == description \in {"", " "}

\* "w" if start_line == 1 else "a"
output_mode(line) == IF line = 1 THEN "w" ELSE "a"

\* start_line == 1 or not OUTPUT_CSV.exists()
should_write_header_always(line, exists) == TRUE

should_write_header(line, exists) == line = 1 \/ ~exists

\* OUTPUT_CSV.open(mode): "w" truncates, "a" keeps; both create the file.
OpenFile(file, mode) ==
    IF mode = "w" \/ ~file.exists THEN [exists |-> TRUE, lines |-> <<>>]
    ELSE file

InitResume ==
    /\ o_pc = "start"
    /\ o_args \in [start_line : StartLineArgs]
    /\ start_line = 0
    /\ o_courses \in InputCourseLists
    /\ o_idx = 0
    /\ output_csv = AbsentFile
    /\ o_before = AbsentFile
    /\ classified = <<>>
    /\ o_runs = 1
    /\ IdleA
    /\ IdleU
    /\ IdleB
    /\ IdleE
    /\ IdleL
    /\ IdleC
    /\ IdleI
    /\ IdleS

\* main up to the loop: the start line, the courses, the old output
\* removed, the file opened and the header written.
ResumeStart ==
    /\ o_pc = "start"
    /\ start_line' = Max2(1, o_args.start_line)
    /\ IF o_courses = <<>>
       THEN /\ o_pc' = "exit"
            /\ UNCHANGED <<o_idx, output_csv, varsS>>
       ELSE LET unlinked == IF start_line' = 1 /\ output_csv.exists
                            THEN AbsentFile ELSE output_csv
                opened == OpenFile(unlinked, output_mode(start_line'))
            IN  /\ output_csv' =
                      IF should_write_header(start_line', unlinked.exists)
                      THEN [opened EXCEPT !.lines = Append(@, HeaderLine)]
                      ELSE opened
                /\ o_idx' = 1
                /\ o_pc' = "loop"
    /\ UNCHANGED <<o_args, o_courses, o_before, classified, o_runs,
                   varsA, varsU, varsB, varsE, varsL, varsC, varsI, varsS>>

\* if idx < start_line: continue
ResumeSkip ==
    /\ o_pc = "loop"
    /\ o_idx <= Len(o_courses)
    /\ o_idx < start_line
    /\ o_idx' = o_idx + 1
    /\ UNCHANGED <<o_pc, o_args, start_line, o_courses, output_csv, o_before,
                   classified, o_runs,
                   varsA, varsU, varsB, varsE, varsL, varsC, varsI, varsS>>

\* A blank description: the row of empty fields, without classify_course.
ResumeBlank ==
    /\ o_pc = "loop"
    /\ o_idx <= Len(o_courses)
    /\ o_idx >= start_line
    /\ DescriptionIsBlank(o_courses[o_idx].description)
    /\ output_csv' = [output_csv EXCEPT
                         !.lines = Append(@, BlankRow(o_courses[o_idx].course_key))]
    /\ o_idx' = o_idx + 1
    /\ UNCHANGED <<o_pc, o_args, start_line, o_courses, o_before,
                   classified, o_runs,
                   varsA, varsU, varsB, varsE, varsL, varsC, varsI, varsS>>

\* classify_course returns a result: its row is written.
ResumeClassified ==
    /\ o_pc = "loop"
    /\ o_idx <= Len(o_courses)
    /\ o_idx >= start_line
    /\ ~DescriptionIsBlank(o_courses[o_idx].description)
    /\ classified' = Append(classified, o_idx)
    /\ \E result \in {"0", "50"} :
          output_csv' = [output_csv EXCEPT
                            !.lines = Append(@, ResultRow(
                                          o_courses[o_idx].course_key, result))]
    /\ o_idx' = o_idx + 1
    /\ UNCHANGED <<o_pc, o_args, start_line, o_courses, o_before, o_runs,
                   varsA, varsU, varsB, varsE, varsL, varsC, varsI, varsS>>

\* classify_course raises: a warning, no row.
ResumeFailed ==
    /\ o_pc = "loop"
    /\ o_idx <= Len(o_courses)
    /\ o_idx >= start_line
    /\ ~DescriptionIsBlank(o_courses[o_idx].description)
    /\ classified' = Append(classified, o_idx)
    /\ o_idx' = o_idx + 1
    /\ UNCHANGED <<o_pc, o_args, start_line, o_courses, output_csv, o_before,
                   o_runs, varsA, varsU, varsB, varsE, varsL, varsC, varsI,
                                  varsS>>

ResumeEnd ==
    /\ o_pc = "loop"
    /\ o_idx > Len(o_courses)
    /\ o_pc' = "done"
    /\ UNCHANGED <<o_args, start_line, o_courses, o_idx, output_csv, o_before,
                   classified, o_runs,
                   varsA, varsU, varsB, varsE, varsL, varsC, varsI, varsS>>

\* The script is run again over the same input, from any start line.
ResumeAgain ==
    /\ o_pc \in {"done", "exit"}
    /\ o_runs < MaxRuns
    /\ o_runs' = o_runs + 1
    /\ o_args' \in [start_line : StartLineArgs]
    /\ o_before' = output_csv
    /\ classified' = <<>>
    /\ o_idx' = 0
    /\ o_pc' = "start"
    /\ UNCHANGED <<start_line, o_courses, output_csv,
                   varsA, varsU, varsB, varsE, varsL, varsC, varsI, varsS>>

NextResume ==
    \/ ResumeStart
    \/ ResumeSkip
    \/ ResumeBlank
    \/ ResumeClassified
    \/ ResumeFailed
    \/ ResumeEnd
    \/ ResumeAgain

SpecResume == InitResume /\ [][NextResume]_vars

\* The run has passed the opening of the output file.
ResumeRunning == o_pc \in {"loop", "done"}

\* The position in the input of the course a row is for.
PositionOf(line) == line.course_key[2]

\* The lines this run has written after the old content it kept.
WrittenLines(kept) ==
    SubSeq(output_csv.lines, Len(kept) + 1, Len(output_csv.lines))

\* Rows only, of courses from the start line on, each position at most
\* once and in input order.
RowsInInputOrder(lines) ==
    /\ \A n \in 1..Len(lines) :
          /\ lines[n].kind = "row"
          /\ PositionOf(lines[n]) >= start_line
          /\ PositionOf(lines[n]) < o_idx
    /\ \A n \in 1..(Len(lines) - 1) :
          PositionOf(lines[n]) < PositionOf(lines[n + 1])

HeaderCount ==
    Cardinality({n \in 1..Len(output_csv.lines) :
                    output_csv.lines[n].kind = "header"})

(***************************************************************************)
(* C24: a run with --start-line k > 1 appends to the output CSV and keeps  *)
(* its content, classifies no course before position k and appends at      *)
(* most one row per course from k on, in input order; a run with start     *)
(* line 1 removes the existing output first.  The header is written only   *)
(* when the start line is 1 or the file does not exist yet, so the output  *)
(* never holds two header rows.                                            *)
(***************************************************************************)
C24_ResumeKeepsOutput ==
    /\ HeaderCount <= 1
    /\ \A n \in 1..Len(classified) : classified[n] >= start_line
    /\ ResumeRunning =>
          LET header == IF start_line = 1 \/ ~o_before.exists
                        THEN <<HeaderLine>> ELSE <<>>
              kept == IF start_line = 1 THEN <<>> ELSE o_before.lines
          IN  /\ output_csv.exists
              /\ Len(output_csv.lines) >= Len(kept) + Len(header)
              /\ SubSeq(output_csv.lines, 1, Len(kept)) = kept
              /\ SubSeq(output_csv.lines, Len(kept) + 1, Len(kept) + Len(header))
                    = header
              /\ RowsInInputOrder(WrittenLines(kept \o header))

\* A second run from line 2 has ended: the header and the two rows of the
\* first run are still there, the row of course 2 has been appended and
\* course 1 was not classified again.
C24_Witness ==
    /\ o_pc = "done"
    /\ o_runs = 2
    /\ start_line = 2
    /\ Len(o_before.lines) = 3
    /\ Len(output_csv.lines) = 4
    /\ SubSeq(output_csv.lines, 1, 3) = o_before.lines
    /\ output_csv.lines[1] = HeaderLine
    /\ output_csv.lines[4].kind = "row"
    /\ PositionOf(output_csv.lines[4]) = 2
    /\ classified = <<2>>

(***************************************************************************)
(* Stage B, main lines 518-558 on a small table: every row is one (course, *)
(* aspect) pair scored by _score_course_aspect with the parsed --alpha     *)
(* (a float that _parse_args neither validates nor clamps), and the three  *)
(* columns are then calibrated over the whole table.                       *)
(***************************************************************************)
MaxCalRows == 3

\* --alpha: the default and 2.0 (in 1/100).
AlphaValues == {DEFAULT_ALPHA, 200}

\* The embedding slice of a course: no sentence, or one sentence.
CourseSlices == {<<>>} \cup {<<v>> : v \in SentenceVectors}

\* An aspect of one keyword, which then carries the whole weight.
OneKeywordConfig(v) ==
    <<[keyword |-> KeywordName(1), normalized |-> KeywordName(1),
       vector |-> v, weight |-> [num |-> 1, den |-> 1]]>>

InitCalRun ==
    /\ u_pc = "call"
    /\ u_fn = "calibrate_table"
    /\ \E n \in 0..MaxCalRows, a \in AlphaValues :
       \E slices \in [1..n -> CourseSlices], kv \in [1..n -> KeywordVectors] :
          u_args = [alpha |-> a, slices |-> slices, keyword_vectors |-> kv]
    /\ u_ret = <<>>
    /\ IdleA
    /\ IdleB
    /\ IdleE
    /\ IdleL
    /\ IdleC
    /\ IdleI
    /\ IdleO
    /\ IdleS

\* main, lines 518-544: the record of row i before calibration.
RawRecord(i) ==
    LET slice == u_args.slices[i]
        result == _score_course_aspect(
                      slice, 0, [s \in 1..Len(slice) |-> SentenceName(s)],
                      OneKeywordConfig(u_args.keyword_vectors[i]),
                      DEFAULT_TAU, DEFAULT_GAMMA, u_args.alpha,
                      DEFAULT_TOPK_HITS, DEFAULT_HIT_THRESHOLD)
    IN  [course_id |-> i,
         coverage |-> result.coverage,
         quality |-> result.quality,
         score |-> result.score,
         num_sentences |-> Len(slice)]

CalRunCall ==
    /\ u_pc = "call"
    /\ u_fn = "calibrate_table"
    /\ LET recs == [i \in 1..Len(u_args.slices) |-> RawRecord(i)]
       IN  u_ret' = [raw |-> recs, stored |-> Calibrate(recs)]
    /\ u_pc' = "returned"
    /\ UNCHANGED <<u_fn, u_args, varsA, varsB, varsE, varsL, varsC, varsI,
                   varsO, varsS>>

NextCalRun == CalRunCall

SpecCalRun == InitCalRun /\ [][NextCalRun]_vars

CalRunReturned == u_pc = "returned" /\ u_fn = "calibrate_table"

ScoreColumns == {"coverage", "quality", "score"}

\* The raw column c of the table, in units of MIN_STD.
RawColumn(c) == [i \in 1..Len(u_ret.raw) |-> 1000 * u_ret.raw[i][c]]

\* The column has a population standard deviation of MIN_STD or more.
ColumnHasSpread(c) == u_ret.raw # <<>> /\ ~IsNearConstant(RawColumn(c))

ColumnIsCdfOfClippedZ(c) ==
    \A i \in 1..Len(u_ret.raw) :
        /\ u_ret.stored[i][c] = _gaussian_cdf_from_z(ZScoreHalf(RawColumn(c), i))
        /\ u_ret.stored[i][c] \in 0..1000

ColumnKeepsOrder(c) ==
    \A i, j \in 1..Len(u_ret.raw) :
        u_ret.raw[i][c] <= u_ret.raw[j][c]
            => u_ret.stored[i][c] <= u_ret.stored[j][c]

ZeroSentenceRowsAtMinimum(c) ==
    \A i \in 1..Len(u_ret.raw) :
        u_ret.raw[i].num_sentences = 0
            => \A j \in 1..Len(u_ret.raw) :
                   u_ret.stored[i][c] <= u_ret.stored[j][c]

\* The claim without its last clause, and the last clause for a blend
\* weight within [0, 1].
CalibrationKeepsOrder ==
    CalRunReturned =>
        \A c \in ScoreColumns :
            ColumnHasSpread(c) =>
                /\ ColumnIsCdfOfClippedZ(c)
                /\ ColumnKeepsOrder(c)
                /\ (u_args.alpha \in 0..100 => ZeroSentenceRowsAtMinimum(c))

\* C25: a calibrated column with spread holds the normal CDF of the clipped
\* z-scores taken over the whole table, within [0, 1] and in the order of
\* the raw values, so that the rows of zero-sentence courses hold the
\* minimum of the column.
C25_CalibratedColumn ==
    CalRunReturned =>
        \A c \in ScoreColumns :
            ColumnHasSpread(c) =>
                /\ ColumnIsCdfOfClippedZ(c)
                /\ ColumnKeepsOrder(c)
                /\ ZeroSentenceRowsAtMinimum(c)

(***************************************************************************)
(* _compute_keyword_weights: document frequencies and the sign of weights. *)
(***************************************************************************)
WeightsReturned == u_pc = "returned" /\ u_fn = "_compute_keyword_weights"

\* token_df.get(token, 0) of _compute_token_df over the courses of the call
TokenDf(token) ==
    Cardinality({i \in 1..Len(CallCourses) : token \in CallCourses[i].tokens})

\* The document frequencies line 316 or line 323 uses for the keyword.
UsedDocFreqs(keyword) ==
    IF PhraseDf(keyword) > 0 THEN {PhraseDf(keyword)}
    ELSE {TokenDf(t) : t \in SeqToSet(FindTokens(_normalize_keyword(keyword)))}

\* C26: for every corpus, the empty one included, no document frequency
\* used for a keyword exceeds the number of courses and the raw IDF is at
\* least 1; every normalized weight is strictly positive and is the IDF
\* over the total of the aspect, never the uniform share of the fallback
\* for a total of zero.
C26_WeightsArePositive ==
    WeightsReturned =>
        LET keywords == SeqToSet(u_args.aspects[1].keywords)
            total == SumSeq([i \in 1..Len(DictKeys(u_args.aspects[1].keywords)) |->
                         KeywordIdf(DictKeys(u_args.aspects[1].keywords)[i],
                                    CallCourses)])
        IN  /\ \A kw \in keywords :
                   /\ \A df \in UsedDocFreqs(kw) : df <= Len(CallCourses)
                   /\ KeywordIdf(kw, CallCourses) >= 1000
                   /\ u_ret[1][kw].num > 0
                   /\ u_ret[1][kw].den > 0
                   /\ u_ret[1][kw] = [num |-> KeywordIdf(kw, CallCourses),
                                      den |-> total]
            /\ total > 0

\* A corpus in which the phrase of one keyword occurs in every course (raw
\* IDF exactly 1) and the other keyword has no token.
C26_Witness ==
    /\ WeightsReturned
    /\ Len(CallCourses) >= 2
    /\ u_args.aspects[1].keywords = << <<"x">>, <<"-">> >>
    /\ PhraseDf(<<"x">>) = Len(CallCourses)
    /\ KeywordIdf(<<"x">>, CallCourses) = 1000
    /\ u_ret[1][<<"x">>].num = 1000
    /\ u_ret[1][<<"-">>].num > 1000

(***************************************************************************)
(* summarize_people_profiles.py: summarize_text, one model call per step.  *)
(* A reply of the model client is an exception, or a message whose content *)
(* arrives in chunks (one chunk without streaming, none for a missing or   *)
(* null content).                                                          *)
(***************************************************************************)
DEFAULT_RETRIES == 2
DEFAULT_MAX_CHARS == 6000

MaxRetries == 2

ChatFailure == [ok |-> FALSE, chunks |-> <<>>]
ChatReply(chunks) == [ok |-> TRUE, chunks |-> chunks]

ReplyChunks ==
    {<<>>, << <<"s">> >>, << <<" ", "s">>, <<" ">> >>, << <<" ">> >>}

Replies == {ChatFailure} \cup {ChatReply(c) : c \in ReplyChunks}

\* text[:max_chars] of the stripped text (lines 74-76)
TrimmedText(text, max_chars) == PyPrefix(Strip(text), max_chars)

\* A call that answers without asking the model.
ReturnedEmpty ==
    [pc |-> "returned", text |-> <<>>, attempt |-> 0, calls |-> <<>>,
     ret |-> <<>>]

\* summarize_text up to its loop (lines 67-83): the guards, the trimming.
summarize_text_enter(text, ollama_available, retries, max_chars) ==
    IF Strip(text) = <<>> THEN ReturnedEmpty
    ELSE IF ~ollama_available THEN ReturnedEmpty
    ELSE IF retries + 1 <= 0 THEN ReturnedEmpty
    ELSE [pc |-> "loop", text |-> TrimmedText(text, max_chars),
          attempt |-> 0, calls |-> <<>>, ret |-> <<>>]

\* A loop that goes on after the last failed attempt.
summarize_text_attempt_unbounded(st, retries, reply) ==
    LET calls == Append(st.calls, [text |-> st.text, reply |-> reply])
    IN  IF reply.ok
        THEN [st EXCEPT !.pc = "returned", !.calls = calls,
                        !.ret = Strip(Flatten(reply.chunks))]
        ELSE [st EXCEPT !.attempt = st.attempt + 1, !.calls = calls]

\* One pass of the loop (lines 84-100): the call returns the stripped
\* content, or raises, and the loop ends after retries + 1 passes
\* (lines 101-102).
summarize_text_attempt(st, retries, reply) ==
    LET calls == Append(st.calls, [text |-> st.text, reply |-> reply])
    IN  IF reply.ok
        THEN [st EXCEPT !.pc = "returned", !.calls = calls,
                        !.ret = Strip(Flatten(reply.chunks))]
        ELSE IF st.attempt + 1 >= retries + 1
        THEN [st EXCEPT !.pc = "returned", !.attempt = st.attempt + 1,
                        !.calls = calls, !.ret = <<>>]
        ELSE [st EXCEPT !.attempt = st.attempt + 1, !.calls = calls]

SummaryTexts ==
    {<<>>, <<" ">>, <<"a">>, <<" ", "a", "b", " ">>}

InitSummarize ==
    /\ u_pc = "call"
    /\ u_fn = "summarize_text"
    /\ \E text \in SummaryTexts, available \in BOOLEAN,
          retries \in 0..MaxRetries, max_chars \in {1, DEFAULT_MAX_CHARS} :
          u_args = [text |-> text, ollama_available |-> available,
                    retries |-> retries, max_chars |-> max_chars]
    /\ u_ret = <<>>
    /\ IdleA
    /\ IdleB
    /\ IdleE
    /\ IdleL
    /\ IdleC
    /\ IdleI
    /\ IdleO
    /\ IdleS

SummarizeEnter ==
    /\ u_pc = "call"
    /\ u_fn = "summarize_text"
    /\ u_ret' = summarize_text_enter(u_args.text, u_args.ollama_available,
                                     u_args.retries, u_args.max_chars)
    /\ u_pc' = u_ret'.pc
    /\ UNCHANGED <<u_fn, u_args, varsA, varsB, varsE, varsL, varsC, varsI,
                   varsO, varsS>>

\* ollama.chat answers or raises; time.sleep returns.
SummarizeAttempt ==
    /\ u_pc = "loop"
    /\ u_fn = "summarize_text"
    /\ Len(u_ret.calls) <= MaxRetries + 2
    /\ \E reply \in Replies :
          u_ret' = summarize_text_attempt(u_ret, u_args.retries, reply)
    /\ u_pc' = u_ret'.pc
    /\ UNCHANGED <<u_fn, u_args, varsA, varsB, varsE, varsL, varsC, varsI,
                   varsO, varsS>>

NextSummarize ==
    \/ SummarizeEnter
    \/ SummarizeAttempt

SpecSummarize == InitSummarize /\ [][NextSummarize]_vars

\* Every call of the model client returns or raises, and every sleep ends.
SpecSummarizeFair == SpecSummarize /\ WF_vars(NextSummarize)

InSummarize == u_fn = "summarize_text" /\ u_pc # "call"

SummarizeReturned == u_fn = "summarize_text" /\ u_pc = "returned"

\* At most retries + 1 model calls, all but the last of them failed, and
\* none without a text or without a client.
CallsAreBounded ==
    InSummarize =>
        /\ Len(u_ret.calls) <= u_args.retries + 1
        /\ \A i \in 1..(Len(u_ret.calls) - 1) : ~u_ret.calls[i].reply.ok
        /\ (Strip(u_args.text) = <<>> \/ ~u_args.ollama_available)
               => u_ret.calls = <<>>

\* The result: the text of the call that succeeded, else the empty string.
ResultIsFirstSuccess ==
    SummarizeReturned =>
        LET n == Len(u_ret.calls) IN
        IF n > 0 /\ u_ret.calls[n].reply.ok
        THEN u_ret.ret = Strip(Flatten(u_ret.calls[n].reply.chunks))
        ELSE /\ u_ret.ret = <<>>
             /\ \/ n = 0 /\ (Strip(u_args.text) = <<>> \/ ~u_args.ollama_available)
                \/ n = u_args.retries + 1

\* C29: summarize_text always returns; it makes at most retries + 1 model
\* calls, stops at the first that succeeds and returns its text, returns the
\* empty string after retries + 1 failed calls, and returns the empty string
\* without any call for a blank text or a missing client.
C29_SummarizeTerminates ==
    /\ [](CallsAreBounded /\ ResultIsFirstSuccess)
    /\ <>(u_fn = "summarize_text" => u_pc = "returned")

\* Two failed calls, then a call that answers " s " in two chunks.
C29_Witness ==
    /\ SummarizeReturned
    /\ u_args.retries = 2
    /\ Len(u_ret.calls) = 3
    /\ ~u_ret.calls[2].reply.ok
    /\ u_ret.calls[3].reply.ok
    /\ u_ret.ret = <<"s">>

(***************************************************************************)
(* summarize_people_profiles.py: add_summaries.  A row is the dict of one  *)
(* CSV line; rows are named by their position in the input, which stands   *)
(* for the identity of the dict that add_summaries updates in place.       *)
(***************************************************************************)
MaxSummaryRows == 2

\* (s or "").strip()
_norm_text(s) == Strip(s)

SUMMARY_MODEL == <<"m">>
SUMMARY_SYSTEM_PROMPT == <<"S">>
SUMMARY_USER_PREFIX == <<"U">>

\* "\n".join(pieces)
RECURSIVE JoinNewline(_)
JoinNewline(pieces) ==
    IF pieces = <<>> THEN <<>>
    ELSE IF Len(pieces) = 1 THEN Head(pieces)
    ELSE Head(pieces) \o <<"\n">> \o JoinNewline(Tail(pieces))

\* hashlib.sha256(...).hexdigest(): one digest per text, without collisions
\* among the texts of the model.
Sha256Hex(text) ==
    CASE text = <<"m", "\n", "S", "\n", "U", "\n", "a", "\n", "A">> -> "k1"
      [] text = <<"m", "\n", "S", "\n", "U", "\n", "b", "\n">> -> "k2"
      [] text = <<"m", "\n", "S", "\n", "U", "\n", "b", "\n", "A">> -> "k3"
      [] text = <<"m", "\n", "S", "\n", "U", "\n", "a", "\n">> -> "k4"
      [] OTHER -> "k5"

_hash_call(model, text, name) ==
    Sha256Hex(JoinNewline(<<Strip(model), Strip(SUMMARY_SYSTEM_PROMPT),
                            Strip(SUMMARY_USER_PREFIX), _norm_text(text),
                            _norm_text(name)>>))

\* row.get("name") or row.get("person_name") or ""
NameOr(row) == IF row.name # <<>> THEN row.name ELSE row.person_name

\* The characters of \w among those of the summaries.
IsWordCharacter(c) == c \notin (Whitespace \cup {".", "\n", "'", "-"})

StartsWith(text, prefix) ==
    Len(text) >= Len(prefix) /\ SubSeq(text, 1, Len(prefix)) = prefix

\* (.*): the rest of the first line
RECURSIVE LineRest(_)
LineRest(text) ==
    IF text = <<>> \/ Head(text) = "\n" THEN <<>>
    ELSE <<Head(text)>> \o LineRest(Tail(text))

\* re.match(r"^(they|he|she)\b(.*)", base, re.IGNORECASE): the length of
\* the pronoun matched, 0 without a match.
PronounLength(base) ==
    LET matches(p) ==
            /\ StartsWith(Lower(base), p)
            /\ (Len(base) = Len(p) \/ ~IsWordCharacter(base[Len(p) + 1]))
    IN  IF matches(<<"t", "h", "e", "y">>) THEN 4
        ELSE IF matches(<<"h", "e">>) THEN 2
        ELSE IF matches(<<"s", "h", "e">>) THEN 3
        ELSE 0

\* summarize_text run to its return on the replies the client gives to the
\* successive calls.
RECURSIVE RunSummarize(_, _, _)
RunSummarize(st, retries, replies) ==
    IF st.pc = "returned" \/ replies = <<>> THEN st
    ELSE RunSummarize(summarize_text_attempt(st, retries, Head(replies)),
                      retries, Tail(replies))

\* Lines 239-257 of _do_summary: the summary made to begin with the name.
LedByName(base, name) ==
    LET p == PronounLength(base)
    IN  IF base = <<>> \/ name = <<>> THEN base
        ELSE IF StartsWith(Lower(base), Lower(name)) THEN base
        ELSE IF p > 0
        THEN _norm_text(name \o LineRest(SubSeq(base, p + 1, Len(base))))
        ELSE name \o <<".", " ">> \o base

\* _do_summary (lines 236-257): the summary of the model, led by the name.
_do_summary(intro_text, display_name, replies) ==
    LET st == RunSummarize(
                  summarize_text_enter(intro_text, TRUE, DEFAULT_RETRIES,
                                       DEFAULT_MAX_CHARS),
                  DEFAULT_RETRIES, replies)
        base == _norm_text(st.ret)
        name == _norm_text(display_name)
    IN  [summary |-> LedByName(base, name), calls |-> st.calls]

\* len(rows[:total]) for total = len(rows), or min(len(rows), limit)
ProcessedCount(n, total) ==
    IF total >= 0 THEN Min2(total, n) ELSE Max2(n + total, 0)

\* The positions of rows[total:]
RemainingRows(n, total) ==
    LET first == IF total >= 0 THEN Min2(total, n) ELSE Max2(n + total, 0)
    IN  [j \in 1..(n - first) |-> first + j]

\* One pass of the loop of lines 197-212 for the row at position i.
WorklistStep(acc, i, model, overwrite, use_cache, cache_) ==
    LET row == acc.rows[i]
        intro == _norm_text(row.introduction_snippet)
        name_for_prefix == _norm_text(NameOr(row))
        existing == _norm_text(row.introduction_summary)
        key == _hash_call(model, intro, name_for_prefix)
        listed == [acc EXCEPT !.out = Append(acc.out, i)]
    IN  IF existing # <<>> /\ ~overwrite THEN listed
        ELSE IF intro = <<>>
        THEN [listed EXCEPT !.rows[i].introduction_summary = <<>>]
        ELSE IF use_cache /\ key \in DOMAIN cache_
        THEN [listed EXCEPT !.rows[i].introduction_summary = cache_[key].val]
        ELSE [listed EXCEPT !.tasks = Append(acc.tasks,
                                 [idx |-> Len(acc.out), row |-> i,
                                  key |-> key, intro |-> intro])]

RECURSIVE Worklist(_, _, _, _, _, _)
Worklist(rows_, count, model, overwrite, use_cache, cache_) ==
    IF count = 0 THEN [rows |-> rows_, out |-> <<>>, tasks |-> <<>>]
    ELSE WorklistStep(Worklist(rows_, count - 1, model, overwrite,
                               use_cache, cache_),
                      count, model, overwrite, use_cache, cache_)

\* An append that leaves out the empty summary.
AppendCacheUnlessEmpty(lines, use_cache, key, summary) ==
    IF use_cache /\ summary # <<>>
    THEN Append(lines, JsonLine(key, PyStr(summary)))
    ELSE lines

\* if use_cache: _append_cache(cache_path, key, summary)
AppendCacheIfUsed(lines, use_cache, key, summary) ==
    IF use_cache THEN Append(lines, JsonLine(key, PyStr(summary)))
    ELSE lines

\* max(1, int(workers or 1))
max_workers(workers) == Max2(1, IF workers = 0 THEN 1 ELSE workers)

\* The rows of the input file tried.
SummaryRow(name, person_name, intro, summary) ==
    [name |-> name, person_name |-> person_name,
     introduction_snippet |-> intro, introduction_summary |-> summary]

SummaryRowPool ==
    {SummaryRow(<<"A">>, <<>>, <<"a">>, <<>>),
     SummaryRow(<<"A">>, <<>>, <<" ", "a">>, <<" ">>),
     SummaryRow(<<>>, <<>>, <<"b">>, <<"o">>),
     SummaryRow(<<"A">>, <<>>, <<>>, <<"o">>),
     SummaryRow(<<>>, <<"A">>, <<"b">>, <<>>)}

\* --limit: absent, 1 and -1.
LimitValues == {NoValue, Some(1), Some(-1)}

\* The cache file before the first run: absent, or with the summary an
\* earlier run stored for ("a", "A").
EarlierCacheFiles == {<<>>, <<JsonLine("k1", PyStr(<<"c">>))>>}

\* What the client answers to the calls made for one task.
SummaryReplyRuns ==
    {<<ChatReply(<< <<"s">> >>)>>,
     <<ChatReply(<< <<"H", "e", " ">>, <<"s">> >>)>>,
     <<ChatFailure, ChatReply(<< <<"a", " ", "s">> >>)>>,
     <<ChatFailure, ChatFailure, ChatFailure>>}

OtherThanSummaries == <<varsA, varsU, varsB, varsE, varsC, varsI, varsO>>

InitSummaries ==
    /\ s_pc = "build"
    /\ \E n \in 0..MaxSummaryRows :
       \E rows_ \in [1..n -> SummaryRowPool], overwrite \in BOOLEAN,
          limit \in LimitValues, workers \in {1, 2}, use_cache \in BOOLEAN,
          available \in BOOLEAN :
          s_args = [rows |-> rows_, model |-> SUMMARY_MODEL,
                    overwrite |-> overwrite, limit |-> limit,
                    workers |-> workers, use_cache |-> use_cache,
                    ollama_available |-> available]
    /\ s_rows = s_args.rows
    /\ s_out = <<>>
    /\ s_tasks = <<>>
    /\ s_futures = <<>>
    /\ s_calls = [i \in 1..Len(s_args.rows) |-> <<>>]
    /\ cache_kind = "summaries"
    /\ cache_file \in EarlierCacheFiles
    /\ s_run = [n |-> 1, ran |-> {}, rows |-> <<>>, lines |-> Len(cache_file)]
    /\ appended = <<>>
    /\ cache_lock = ""
    /\ appenders = [t \in Appenders |-> NotAppending]
    /\ IdleA
    /\ IdleU
    /\ IdleB
    /\ IdleE
    /\ IdleC
    /\ IdleI
    /\ IdleO

\* total (line 187)
SummaryTotal ==
    IF s_args.limit = NoValue THEN Len(s_args.rows)
    ELSE Min2(Len(s_args.rows), s_args.limit[1])

QueuedFuture == [state |-> "queued", summary |-> <<>>]

\* Lines 184-232: the cache loaded, the worklist built, and the two early
\* returns; else the futures are submitted (or the serial loop begins).
SummariesBuild ==
    /\ s_pc = "build"
    /\ LET n == Len(s_rows)
           cache_ == IF s_args.use_cache
                     THEN _load_cache("summaries", cache_file)
                     ELSE EmptyDict
           acc == Worklist(s_rows, ProcessedCount(n, SummaryTotal),
                           s_args.model, s_args.overwrite, s_args.use_cache,
                           cache_)
           rest == RemainingRows(n, SummaryTotal)
       IN  /\ s_rows' = acc.rows
           /\ s_tasks' = acc.tasks
           /\ IF acc.tasks = <<>> \/ ~s_args.ollama_available
              THEN /\ s_out' = acc.out \o rest
                   /\ s_futures' = <<>>
                   /\ s_pc' = "done"
              ELSE /\ s_out' = acc.out
                   /\ s_futures' = [t \in 1..Len(acc.tasks) |-> QueuedFuture]
                   /\ s_pc' = IF max_workers(s_args.workers) = 1
                              THEN "serial" ELSE "parallel"
    /\ UNCHANGED <<s_args, s_calls, s_run, varsL, OtherThanSummaries>>

\* row["introduction_summary"] = summary, and the cache entry
Collected(t, summary) ==
    /\ s_rows' = [s_rows EXCEPT
                     ![s_tasks[t].row].introduction_summary = summary]
    /\ cache_file' = AppendCacheIfUsed(cache_file, s_args.use_cache,
                                       s_tasks[t].key, summary)
    /\ UNCHANGED <<cache_kind, appended, cache_lock, appenders>>

\* Lines 260-269: one pass of the serial loop.
SummariesSerialTask ==
    /\ s_pc = "serial"
    /\ \E t \in 1..Len(s_tasks) :
          /\ s_futures[t].state = "queued"
          /\ \A u \in 1..(t - 1) : s_futures[u].state = "collected"
          /\ \E replies \in SummaryReplyRuns :
                LET row == s_rows[s_tasks[t].row]
                    result == _do_summary(s_tasks[t].intro,
                                          _norm_text(NameOr(row)), replies)
                IN  /\ Collected(t, result.summary)
                    /\ s_futures' = [s_futures EXCEPT ![t] =
                                        [state |-> "collected",
                                         summary |-> result.summary]]
                    /\ s_calls' = [s_calls EXCEPT ![s_tasks[t].row] =
                                      s_calls[s_tasks[t].row] \o result.calls]
    /\ UNCHANGED <<s_pc, s_args, s_out, s_tasks, s_run, OtherThanSummaries>>

\* An idle worker thread takes the next queued call of _do_summary.
SummariesTaskStart ==
    /\ s_pc = "parallel"
    /\ \E t \in 1..Len(s_tasks) :
          /\ s_futures[t].state = "queued"
          /\ \A u \in 1..(t - 1) : s_futures[u].state # "queued"
          /\ Cardinality({u \in 1..Len(s_tasks) :
                             s_futures[u].state = "running"})
                < max_workers(s_args.workers)
          /\ s_futures' = [s_futures EXCEPT ![t].state = "running"]
    /\ UNCHANGED <<s_pc, s_args, s_rows, s_out, s_tasks, s_calls, s_run,
                   varsL, OtherThanSummaries>>

\* A worker thread finishes its call of _do_summary (lines 274-281).
SummariesTaskFinish ==
    /\ s_pc = "parallel"
    /\ \E t \in 1..Len(s_tasks) :
          /\ s_futures[t].state = "running"
          /\ \E replies \in SummaryReplyRuns :
                LET row == s_rows[s_tasks[t].row]
                    result == _do_summary(s_tasks[t].intro,
                                          _norm_text(NameOr(row)), replies)
                IN  /\ s_futures' = [s_futures EXCEPT ![t] =
                                        [state |-> "finished",
                                         summary |-> result.summary]]
                    /\ s_calls' = [s_calls EXCEPT ![s_tasks[t].row] =
                                      s_calls[s_tasks[t].row] \o result.calls]
    /\ UNCHANGED <<s_pc, s_args, s_rows, s_out, s_tasks, s_run, varsL,
                   OtherThanSummaries>>

\* Lines 282-294: as_completed yields a finished future, and the main
\* thread stores its result.
SummariesCollect ==
    /\ s_pc = "parallel"
    /\ \E t \in 1..Len(s_tasks) :
          /\ s_futures[t].state = "finished"
          /\ Collected(t, s_futures[t].summary)
          /\ s_futures' = [s_futures EXCEPT ![t].state = "collected"]
    /\ UNCHANGED <<s_pc, s_args, s_out, s_tasks, s_calls, s_run,
                   OtherThanSummaries>>

\* Lines 295-302: the rows beyond the cut, and the return.
SummariesReturn ==
    /\ s_pc \in {"serial", "parallel"}
    /\ \A t \in 1..Len(s_tasks) : s_futures[t].state = "collected"
    /\ s_out' = s_out \o RemainingRows(Len(s_rows), SummaryTotal)
    /\ s_pc' = "done"
    /\ UNCHANGED <<s_args, s_rows, s_tasks, s_futures, s_calls, s_run, varsL,
                   OtherThanSummaries>>

\* A later run over the same input with the same arguments, the cache on.
SummariesAgain ==
    /\ s_pc = "done"
    /\ s_run.n = 1
    /\ s_args.use_cache
    /\ s_run' = [n |-> 2,
                 ran |-> {[row |-> s_tasks[t].row, key |-> s_tasks[t].key] :
                             t \in 1..Len(s_futures)},
                 rows |-> s_rows,
                 lines |-> Len(cache_file)]
    /\ s_rows' = s_args.rows
    /\ s_out' = <<>>
    /\ s_tasks' = <<>>
    /\ s_futures' = <<>>
    /\ s_calls' = [i \in 1..Len(s_args.rows) |-> <<>>]
    /\ s_pc' = "build"
    /\ UNCHANGED <<s_args, varsL, OtherThanSummaries>>

NextSummaries ==
    \/ SummariesBuild
    \/ SummariesSerialTask
    \/ SummariesTaskStart
    \/ SummariesTaskFinish
    \/ SummariesCollect
    \/ SummariesReturn
    \/ SummariesAgain

SpecSummaries == InitSummaries /\ [][NextSummaries]_vars

SummariesDone == s_pc = "done"

\* out, as the rows it lists
ReturnedRows == [i \in 1..Len(s_out) |-> s_rows[s_out[i]]]

\* The task of a row, 0 for a row without one.
TaskOfRow(r) ==
    IF \E t \in 1..Len(s_tasks) : s_tasks[t].row = r
    THEN CHOOSE t \in 1..Len(s_tasks) : s_tasks[t].row = r
    ELSE 0

\* The rows come back each once, in the order of the input.
RowsListedOnceInOrder ==
    SummariesDone => s_out = [i \in 1..Len(s_args.rows) |-> i]

\* A row beyond the first `limit` rows comes back as it was.
RowsBeyondLimitUnchanged ==
    SummariesDone =>
        \A i \in 1..Len(s_args.rows) :
            (s_args.limit # NoValue /\ i > s_args.limit[1])
                => s_rows[i] = s_args.rows[i]

\* Every model call made for a row carries the introduction of that row,
\* and the summary stored in the row is the answer to the last of these
\* calls, led by the name of that row.
SummariesAreOwn ==
    \A r \in 1..Len(s_rows) :
        LET t == TaskOfRow(r)
            given == s_args.rows[r]
            calls == s_calls[r]
            last == calls[Len(calls)]
            base == IF last.reply.ok THEN Strip(Flatten(last.reply.chunks))
                    ELSE <<>>
        IN  /\ \A c \in 1..Len(calls) :
                   calls[c].text = _norm_text(given.introduction_snippet)
            /\ (t > 0 /\ Len(s_futures) >= t /\ s_futures[t].state = "collected")
                   => /\ calls # <<>>
                      /\ s_rows[r].introduction_summary =
                             LedByName(base, _norm_text(NameOr(given)))

\* No model call for a row that has a summary (and is not to be
\* overwritten) or has no introduction.
NoCallWithoutNeed ==
    \A r \in 1..Len(s_rows) :
        LET given == s_args.rows[r]
        IN  (\/ _norm_text(given.introduction_summary) # <<>>
                   /\ ~s_args.overwrite
             \/ _norm_text(given.introduction_snippet) = <<>>)
                => s_calls[r] = <<>>

\* C27: for every number of workers and every completion order the rows
\* come back each once and in input order, those beyond the limit as they
\* were; a processed row holds the summary computed from its own
\* introduction and name; a row with a summary (without overwrite) or
\* without an introduction triggers no model call.
C27_RowsKeepOrderAndOwnSummary ==
    /\ RowsListedOnceInOrder
    /\ RowsBeyondLimitUnchanged
    /\ SummariesAreOwn
    /\ NoCallWithoutNeed

\* The key and the value of a line that _append_cache wrote.
LineKey(line) == line[2].value.text
LineValue(line) == line[3].value.text

\* The lines this run has added to the cache file.
LinesOfRun == SubSeq(cache_file, s_run.lines + 1, Len(cache_file))

CollectedTasks ==
    {t \in 1..Len(s_futures) : s_futures[t].state = "collected"}

\* One line per task that ran, with the key of the task and the summary
\* stored in its row.
OneEntryPerTask ==
    s_args.use_cache =>
        /\ Len(LinesOfRun) = Cardinality(CollectedTasks)
        /\ \E place \in [CollectedTasks -> 1..Len(LinesOfRun)] :
              /\ \A t, u \in CollectedTasks : place[t] = place[u] => t = u
              /\ \A t \in CollectedTasks :
                    /\ LineKey(LinesOfRun[place[t]]) = s_tasks[t].key
                    /\ LineValue(LinesOfRun[place[t]]) =
                           s_rows[s_tasks[t].row].introduction_summary

\* The value of the last line of the cache file that has the key.
LastCachedValue(key) ==
    LET hits == {i \in 1..Len(cache_file) : LineKey(cache_file[i]) = key}
    IN  LineValue(cache_file[CHOOSE i \in hits : \A j \in hits : j <= i])

\* In the later run, the rows whose tasks ran before cost no model call and
\* get the cached value.
LaterRunUsesCache ==
    s_run.n = 2 =>
        \A e \in s_run.ran :
            /\ s_calls[e.row] = <<>>
            /\ TaskOfRow(e.row) = 0
            /\ s_pc = "done"
                   => s_rows[e.row].introduction_summary = LastCachedValue(e.key)

\* C28: with the cache on, add_summaries appends one cache entry per task it
\* ran, holding the value written to the row's introduction_summary, the
\* empty summary of a task whose every attempt failed included; a later run
\* over the same input then makes no model call for those rows and gives
\* them the cached value.
C28_CacheHoldsEverySummary == OneEntryPerTask /\ LaterRunUsesCache

\* The later run has returned; before it, the task of a row failed at every
\* attempt and the task of another row got an answer.
C28_Witness ==
    /\ s_run.n = 2
    /\ s_pc = "done"
    /\ s_args.use_cache
    /\ \E e, f \in s_run.ran :
          /\ s_run.rows[e.row].introduction_summary = <<>>
          /\ s_rows[e.row].introduction_summary = <<>>
          /\ LastCachedValue(e.key) = <<>>
          /\ s_rows[f.row].introduction_summary # <<>>
          /\ f.key # e.key

(***************************************************************************)
(* Stage A: _load_rows.  A CSV file is its header and its records, each a  *)
(* list of fields as the csv module reads and writes them (a blank line is *)
(* the empty record).                                                      *)
(***************************************************************************)
ROW_ID_COLUMN == "row_id"
TEXT_COLUMN == "text"

MaxCsvRecords == 2

\* csv.DictReader: the value of a column in a record.  The last column of
\* that name counts, and a record too short for it leaves None (restval).
DictReaderGet(fieldnames, record, column) ==
    LET places == {i \in 1..Len(fieldnames) : fieldnames[i] = column}
        last == CHOOSE i \in places : \A j \in places : j <= i
    IN  IF last <= Len(record) THEN Some(record[last]) ELSE NoValue

\* value or ""
OrEmptyString(value) == IF value = NoValue THEN "" ELSE value[1]

\* any(col not in {ROW_ID_COLUMN, TEXT_COLUMN} for col in fieldnames)
has_extra_columns(fieldnames) ==
    \E i \in 1..Len(fieldnames) :
        fieldnames[i] \notin {ROW_ID_COLUMN, TEXT_COLUMN}

\* The rows DictReader yields: blank lines are skipped.
DataRecords(file) == SelectSeq(file.records, LAMBDA r : r # <<>>)

\* Lines 123-129: the row kept for one record.
LoadedRow(fieldnames, record) ==
    [row_id |-> DictReaderGet(fieldnames, record, ROW_ID_COLUMN),
     text |-> OrEmptyString(DictReaderGet(fieldnames, record, TEXT_COLUMN))]

\* Lines 133-136: csv.DictWriter writes None as the empty field.
StrippedFile(loaded) ==
    [exists |-> TRUE,
     header |-> <<ROW_ID_COLUMN, TEXT_COLUMN>>,
     records |-> [i \in 1..Len(loaded) |->
                     <<OrEmptyString(loaded[i].row_id), loaded[i].text>>]]

LoadFailure(file, error) ==
    [ok |-> FALSE, error |-> error, rows |-> <<>>, wrote |-> FALSE,
     file |-> file]

\* _load_rows: what it returns or raises, and the file it leaves.
_load_rows(file) ==
    IF ~file.exists THEN LoadFailure(file, "FileNotFoundError")
    ELSE IF ROW_ID_COLUMN \notin SeqToSet(file.header)
    THEN LoadFailure(file, "ValueError: Missing 'row_id' column")
    ELSE IF TEXT_COLUMN \notin SeqToSet(file.header)
    THEN LoadFailure(file, "ValueError: Missing 'text' column")
    ELSE LET data == DataRecords(file)
             loaded == [i \in 1..Len(data) |-> LoadedRow(file.header, data[i])]
         IN  IF has_extra_columns(file.header)
             THEN [ok |-> TRUE, error |-> "", rows |-> loaded, wrote |-> TRUE,
                   file |-> StrippedFile(loaded)]
             ELSE [ok |-> TRUE, error |-> "", rows |-> loaded,
                   wrote |-> FALSE, file |-> file]

CsvHeaders ==
    {<<>>, <<"row_id">>, <<"text", "x">>,
     <<"row_id", "text">>, <<"text", "row_id">>, <<"row_id", "text", "text">>,
     <<"row_id", "text", "x">>, <<"text", "row_id", "x">>}

CsvRecords ==
    {<<>>, <<"hello">>, <<"1", "a">>, <<"", "", "5">>, <<"2", "b", "c", "d">>}

NoFile == [exists |-> FALSE, header |-> <<>>, records |-> <<>>]

InitLoadRows ==
    /\ u_pc = "call"
    /\ u_fn = "_load_rows"
    /\ \/ u_args = [file |-> NoFile]
       \/ \E header \in CsvHeaders, n \in 0..MaxCsvRecords :
          \E recs \in [1..n -> CsvRecords] :
             u_args = [file |-> [exists |-> TRUE, header |-> header,
                                 records |-> recs]]
    /\ u_ret = <<>>
    /\ IdleA
    /\ IdleB
    /\ IdleE
    /\ IdleL
    /\ IdleC
    /\ IdleI
    /\ IdleO
    /\ IdleS

\* The first load of the file.
LoadRowsCall ==
    /\ u_pc = "call"
    /\ u_fn = "_load_rows"
    /\ u_ret' = <<_load_rows(u_args.file)>>
    /\ u_pc' = "loaded"
    /\ UNCHANGED <<u_fn, u_args, varsA, varsB, varsE, varsL, varsC, varsI,
                   varsO, varsS>>

\* A second load, of the file the first one left.
LoadRowsAgain ==
    /\ u_pc = "loaded"
    /\ u_fn = "_load_rows"
    /\ u_ret' = Append(u_ret, _load_rows(u_ret[1].file))
    /\ u_pc' = "returned"
    /\ UNCHANGED <<u_fn, u_args, varsA, varsB, varsE, varsL, varsC, varsI,
                   varsO, varsS>>

NextLoadRows ==
    \/ LoadRowsCall
    \/ LoadRowsAgain

SpecLoadRows == InitLoadRows /\ [][NextLoadRows]_vars

\* The file is written exactly when it has both columns and some other; a
\* load that raises writes nothing.
WritesOnlyExtraColumns ==
    (u_fn = "_load_rows" /\ u_pc # "call") =>
        /\ u_ret[1].wrote <=> (u_ret[1].ok /\ has_extra_columns(u_args.file.header))
        /\ ~u_ret[1].wrote => u_ret[1].file = u_args.file
        /\ ~u_ret[1].ok => ~u_ret[1].wrote

\* The second load returns the rows of the first and writes nothing.
SecondLoadIsSame ==
    (u_fn = "_load_rows" /\ u_pc = "returned" /\ u_ret[1].ok) =>
        /\ u_ret[2].ok
        /\ u_ret[2].rows = u_ret[1].rows
        /\ ~u_ret[2].wrote
        /\ u_ret[2].file = u_ret[1].file

\* C30: _load_rows writes its input only when the file has columns other
\* than row_id and text; the file then holds the loaded pairs in order, so
\* that a second load returns the same rows and writes nothing; a file of
\* those two columns only is never written, and a file without one of them
\* raises before anything is written.
C30_LoadRowsIsIdempotent == WritesOnlyExtraColumns /\ SecondLoadIsSame

====
